---- MODULE Spec2Model ----
\* Model of the tournament result-processing pipeline of src/update-node.js:
\* one batch run after another against a Firebase-like store, with store and
\* feed calls that may fail.  Point values are kept in tenths (1.6 -> 16).
EXTENDS Integers, Sequences, FiniteSets, TLC

VARIABLES
    catalog,             \* the feed: tournament id -> [name, rows, array]
    clubsDb,             \* store: clubs (roster), in Object.entries order
    seasonSetting,       \* store: settings/currentSeason (0 = missing)
    markers,             \* store: fetchedTournaments/<id> that exist
    points,              \* store: totalPoints values, key -> tenths
    stats,               \* store: placement counters, key -> count
    pc,                  \* position of the batch process
    currentSeason,       \* global currentSeason
    response,            \* fetchAndProcessTournaments: the feed's answer, parsed
    tournaments,         \* fetchAndProcessTournaments: the fetched list
    idx,                 \* fetchAndProcessTournaments: loop position
    tier,                \* fetchAndProcessTournaments: tier of tournaments[idx]
    playersCache,        \* global playersCache (set of cache entries)
    sortedTeams,         \* processTournamentResults: Object.entries(sortedTeams)
    teamIdx,             \* processTournamentResults: loop position
    clubsAlreadyAwarded, \* processTournamentResults: Set of club names
    processResult,       \* processTournamentResults: last processTeamResults value
    runsLeft,            \* scheduled runs still to come
    failuresLeft,        \* external-call failures still to come
    run,                 \* history: number of the current run
    checked,             \* history: ids whose marker was checked in this run
    failed,              \* history: ids whose processing raised an error in this run
    failedBefore,        \* history: ids whose processing raised an error in the previous run
    markedNow,           \* history: ids whose marker was written in this run
    markersAtStart,      \* history: markers when this run started
    scoredRuns,          \* history: id -> runs that applied a scoring write for it
    clubCredits,         \* history: club id -> teams of this tournament that wrote to it
    snap,                \* history: points and stats when this tournament started
    runFailures,         \* history: number of failed external calls in this run
    call,                \* a single function under test: its input and its returns
    exitCode,            \* main: the argument of process.exit, <<>> while the process runs
    PLAYFAB_ENABLED,     \* configuration: whether the PlayFab credentials are set
    trophies,            \* store: trophyCount and totalTrophies values, key -> count
    trophyWrites,        \* history: club ids the last club trophy update wrote
    instances            \* pipeline instances that credit a total, each at its own position

vars == <<catalog, clubsDb, seasonSetting, markers, points, stats, pc,
          currentSeason, tournaments, idx, tier, playersCache, sortedTeams,
          teamIdx, clubsAlreadyAwarded, processResult, runsLeft, failuresLeft,
          run, checked, failed, failedBefore, markedNow, markersAtStart,
          scoredRuns, clubCredits, snap, runFailures, response, call, exitCode,
          PLAYFAB_ENABLED, trophies, trophyWrites, instances>>

\* What the tournament loop leaves alone: the exit of the process, the PlayFab
\* sync and its store values, and the instances of the overlap model.
otherVars == <<exitCode, PLAYFAB_ENABLED, trophies, trophyWrites, instances>>

\* ------------------------------------------------------------------ bounds

MaxRuns == 2
MaxFailures == 1
MaxFeed == 2
MaxRows == 4
MaxWords == 3
MaxCalls == 2
MaxPlacement == 6
MaxTrophies == 1
MaxAdds == 2
MaxCaseWords == 2

\* The bits of the significand of a JavaScript number (an IEEE 754 double).
Precision == 53

\* ------------------------------------------------------------ generic helpers

Range(s) == {s[i] : i \in 1..Len(s)}

\* All sequences without repetition of length <= n over the set S.
SeqsUpTo(S, n) ==
    UNION {{s \in [1..k -> S] : \A i, j \in 1..k : i # j => s[i] # s[j]} : k \in 0..n}

\* A store value read as `snapshot.val() || 0`.
Get(m, k) == IF k \in DOMAIN m THEN m[k] ELSE 0

\* A store write; a path that holds 0 and a missing path read alike, so a
\* write that leaves the value at 0 leaves the map as it is.
Put(m, k, v) ==
    IF v = Get(m, k) THEN m
    ELSE [x \in DOMAIN m \cup {k} |-> IF x = k THEN v ELSE m[x]]

\* The element of a set of one element: the value of an expression, computed once.
Only(S) == CHOOSE x \in S : TRUE

RECURSIVE MinOf(_)
\* Math.min(...list) of a non-empty list of numbers.
MinOf(s) ==
    IF Len(s) = 1 THEN s[1]
    ELSE LET m == MinOf(Tail(s)) IN IF s[1] < m THEN s[1] ELSE m

\* --------------------------------------------------------- string conversions

\* String.prototype.toUpperCase on the competitor ids of the model.
ToUpperCase(s) ==
    CASE s = "a1" -> "A1"
      [] s = "a 1" -> "A 1"
      [] OTHER -> s

\* String.prototype.replace(/\s/g, '') on the competitor ids of the model.
RemoveWhitespace(s) ==
    CASE s = "A 1" -> "A1"
      [] s = "a 1" -> "a1"
      [] OTHER -> s

\* parseInt(row.userPlace): [nan, v].  parseInt reads the digits a text
\* starts with and ignores what follows them.
ParseInt(s) ==
    CASE s = "1" -> [nan |-> FALSE, v |-> 1]
      [] s = "3rd" -> [nan |-> FALSE, v |-> 3]
      [] s = "2" -> [nan |-> FALSE, v |-> 2]
      [] s = "3" -> [nan |-> FALSE, v |-> 3]
      [] s = "4" -> [nan |-> FALSE, v |-> 4]
      [] s = "0" -> [nan |-> FALSE, v |-> 0]
      [] s = "5" -> [nan |-> FALSE, v |-> 5]
      [] OTHER -> [nan |-> TRUE, v |-> 0]

\* ------------------------------------------------------------- tier and points

\* String.prototype.toLowerCase on the words of the tournament names of the model.
ToLowerCase(w) ==
    CASE w = "EU" -> "eu"
      [] w = "Silver" -> "silver"
      [] w = "Cup" -> "cup"
      [] w = "Gold" -> "gold"
      [] w = "Limited" -> "limited"
      [] w = "Championship" -> "championship"
      [] w = "Weekly" -> "weekly"
      [] w = "Round" -> "round"
      [] w = "Madness" -> "madness"
      [] w = "Singapore" -> "singapore"
      [] w = "US" -> "us"
      [] w = "Halloween" -> "halloween"
      [] w = "Asia" -> "asia"
      [] w = "India" -> "india"
      [] w = "Diamond" -> "diamond"
      [] w = "Platinum" -> "platinum"
      [] w = "America" -> "america"
      [] w = "EU1" -> "eu1"
      [] w = "SILVER" -> "silver"
      [] w = "sIlVeR" -> "silver"
      [] w = "SINGAPORE" -> "singapore"
      [] w = "Eu1" -> "eu1"
      [] w = "GOLD" -> "gold"
      [] w = "LIMITED" -> "limited"
      [] w = "ASIA" -> "asia"
      [] w = "CUP" -> "cup"
      [] OTHER -> w

\* A tournament name as a JavaScript value: a string, given by the sequence
\* of its words, or a value of another type (undefined, null, a number, an
\* object), which has no words.
Str(words) == [type |-> "string", words |-> words]

NotAString(type) == [type |-> type, words |-> <<>>]

\* typeof name === 'string'
IsString(value) == value.type = "string"

\* The one-word patterns that are substrings of a lower-cased word.
PatternsIn(w) == IF w = "eu1" THEN {"eu", "1"} ELSE {w}

\* Mutant of Includes: the name is not lower-cased before the match.
IncludesCaseSensitive(name, k) == \E i \in 1..Len(name) : k \in PatternsIn(name[i])

\* normalizedName.includes(k) for a one-word pattern k: a tournament name is
\* the sequence of its words.
Includes(name, k) == \E i \in 1..Len(name) : k \in PatternsIn(ToLowerCase(name[i]))

\* Mutant of IncludesPair: the name is not lower-cased before the match.
IncludesPairCaseSensitive(name, a, b) ==
    \E i \in 1..(Len(name) - 1) : name[i] = a /\ name[i + 1] = b

\* normalizedName.includes("a b") for a two-word pattern.
IncludesPair(name, a, b) ==
    \E i \in 1..(Len(name) - 1) :
        ToLowerCase(name[i]) = a /\ ToLowerCase(name[i + 1]) = b

\* Mutant of getTierFromName: championship tournaments get a tier of their own.
getTierFromNameChampionship(value) ==
    LET name == value.words IN
    IF ~IsString(value) \/ name = <<>> THEN "Unknown"
    ELSE IF Includes(name, "silver") /\ Includes(name, "singapore") THEN "silverAsia1"
    ELSE IF Includes(name, "silver") /\ Includes(name, "eu") /\ Includes(name, "1")
        THEN "silverEu1"
    ELSE IF Includes(name, "silver") /\ Includes(name, "eu") /\ Includes(name, "2")
        THEN "silverEu2"
    ELSE IF Includes(name, "silver") /\ Includes(name, "us") /\ Includes(name, "1")
        THEN "silverUs1"
    ELSE IF Includes(name, "silver") /\ Includes(name, "us") /\ Includes(name, "2")
        THEN "silverUs2"
    ELSE IF Includes(name, "gold") /\ Includes(name, "limited") THEN "goldLimited"
    ELSE IF Includes(name, "halloween") THEN "halloweenCup"
    ELSE IF IncludesPair(name, "asia", "cup") THEN "asia"
    ELSE IF IncludesPair(name, "round", "madness") /\ Includes(name, "eu")
        THEN "roundMadnessEu"
    ELSE IF IncludesPair(name, "round", "madness") /\ Includes(name, "us")
        THEN "roundMadnessUs"
    ELSE IF IncludesPair(name, "round", "madness") /\ Includes(name, "india")
        THEN "roundMadnessIndia"
    ELSE IF Includes(name, "diamond") THEN "diamond"
    ELSE IF Includes(name, "platinum") THEN "platinum"
    ELSE IF Includes(name, "gold") THEN "gold"
    ELSE IF Includes(name, "america") THEN "america"
    ELSE IF Includes(name, "championship") THEN "championship"
    ELSE "Unknown"

getTierFromName(value) ==
    LET name == value.words IN
    IF ~IsString(value) \/ name = <<>> THEN "Unknown"
    ELSE IF Includes(name, "silver") /\ Includes(name, "singapore") THEN "silverAsia1"
    ELSE IF Includes(name, "silver") /\ Includes(name, "eu") /\ Includes(name, "1")
        THEN "silverEu1"
    ELSE IF Includes(name, "silver") /\ Includes(name, "eu") /\ Includes(name, "2")
        THEN "silverEu2"
    ELSE IF Includes(name, "silver") /\ Includes(name, "us") /\ Includes(name, "1")
        THEN "silverUs1"
    ELSE IF Includes(name, "silver") /\ Includes(name, "us") /\ Includes(name, "2")
        THEN "silverUs2"
    ELSE IF Includes(name, "gold") /\ Includes(name, "limited") THEN "goldLimited"
    ELSE IF Includes(name, "halloween") THEN "halloweenCup"
    ELSE IF IncludesPair(name, "asia", "cup") THEN "asia"
    ELSE IF IncludesPair(name, "round", "madness") /\ Includes(name, "eu")
        THEN "roundMadnessEu"
    ELSE IF IncludesPair(name, "round", "madness") /\ Includes(name, "us")
        THEN "roundMadnessUs"
    ELSE IF IncludesPair(name, "round", "madness") /\ Includes(name, "india")
        THEN "roundMadnessIndia"
    ELSE IF Includes(name, "diamond") THEN "diamond"
    ELSE IF Includes(name, "platinum") THEN "platinum"
    ELSE IF Includes(name, "gold") THEN "gold"
    ELSE IF Includes(name, "america") THEN "america"
    ELSE IF Includes(name, "championship") THEN "Unknown"
    ELSE "Unknown"

\* Property names every object literal inherits from Object.prototype: a
\* lookup pointsMap[t] of one of them finds the inherited value, which is truthy.
ObjectPrototypeKeys == {"constructor", "toString", "valueOf", "hasOwnProperty", "__proto__"}

\* An inherited value (a function or the prototype object): it is no list of
\* four numbers and has no numeric entries, so it is written as the empty list.
InheritedProperty == <<>>

\* Mutant of getPointsMapping: a table that has the premium tiers only.
getPointsMappingPremiumOnly(t) ==
    CASE t = "diamond" -> <<360, 180, 90, 90>>
      [] t = "platinum" -> <<180, 90, 45, 45>>
      [] t = "gold" -> <<50, 25, 12, 12>>
      [] OTHER -> <<0, 0, 0, 0>>

\* The points table, in tenths of a point, [1st, 2nd, 3rd, 4th].
getPointsMapping(t) ==
    CASE t = "diamond" -> <<360, 180, 90, 90>>
      [] t = "platinum" -> <<180, 90, 45, 45>>
      [] t = "goldLimited" -> <<60, 30, 15, 15>>
      [] t = "gold" -> <<50, 25, 12, 12>>
      [] t = "silverEu2" -> <<20, 10, 5, 5>>
      [] t = "silverEu1" -> <<16, 8, 4, 4>>
      [] t = "silverUs1" -> <<14, 7, 3, 3>>
      [] t = "asia" -> <<12, 6, 3, 3>>
      [] t = "america" -> <<20, 10, 5, 5>>
      [] t = "silverUs2" -> <<12, 6, 0, 0>>
      [] t = "silverAsia1" -> <<18, 9, 4, 4>>
      [] t = "roundMadnessEu" -> <<100, 50, 25, 17>>
      [] t = "roundMadnessUs" -> <<70, 35, 17, 12>>
      [] t = "roundMadnessIndia" -> <<64, 32, 16, 11>>
      [] t = "halloweenCup" -> <<100, 50, 25, 25>>
      [] t = "Unknown" -> <<0, 0, 0, 0>>
      [] t \in ObjectPrototypeKeys -> InheritedProperty
      [] OTHER -> <<0, 0, 0, 0>>

\* Mutant of PointsAt: the table indexed by the placement itself, not by
\* placement - 1.
PointsAtPlacementAsIndex(pointsForPlacement, placement) ==
    IF placement + 1 \in 1..Len(pointsForPlacement)
    THEN pointsForPlacement[placement + 1] ELSE 0

\* pointsForPlacement[placement - 1] || 0
PointsAt(pointsForPlacement, placement) ==
    IF placement \in 1..Len(pointsForPlacement) THEN pointsForPlacement[placement] ELSE 0

\* Mutant of getStatFieldForPlacement: fourth place has a field of its own.
getStatFieldForPlacementFourth(placement) ==
    CASE placement = 1 -> "first"
      [] placement = 2 -> "second"
      [] placement = 3 -> "third"
      [] placement = 4 -> "fourth"
      [] OTHER -> ""

\* fieldMap[placement] || null ("" stands for null)
getStatFieldForPlacement(placement) ==
    CASE placement = 1 -> "first"
      [] placement = 2 -> "second"
      [] placement = 3 -> "third"
      [] placement = 4 -> "third"
      [] OTHER -> ""

\* ---------------------------------------------------------------- the roster

NoClub == "No Club"

RECURSIVE FlatRoster(_)
\* The (club, player) pairs of `clubs` in Object.entries order.
FlatRoster(clubs) ==
    IF clubs = <<>> THEN <<>>
    ELSE LET c == Head(clubs)
         IN  [i \in 1..Len(c.players) |->
                 [clubId |-> c.id, clubName |-> c.name, playerKey |-> c.players[i].key,
                  playfabId |-> c.players[i].playfabId, name |-> c.players[i].name]]
             \o FlatRoster(Tail(clubs))

\* The cache of fetchClubsAndPlayers: normalized id -> the last roster entry
\* with that id, among clubs and players that have a name and an id.
fetchClubsAndPlayers(clubs) ==
    LET Usable(e) == e.clubName # "" /\ e.playfabId # "" /\ e.name # ""
        flat == SelectSeq(FlatRoster(clubs), Usable)
        Norm(e) == RemoveWhitespace(ToUpperCase(e.playfabId))
        ids == {Norm(flat[i]) : i \in 1..Len(flat)}
        Last(id) == CHOOSE i \in 1..Len(flat) :
                        /\ Norm(flat[i]) = id
                        /\ \A j \in 1..Len(flat) : Norm(flat[j]) = id => j <= i
    IN  [id \in ids |->
            [name |-> flat[Last(id)].name, clubName |-> flat[Last(id)].clubName,
             clubId |-> flat[Last(id)].clubId, playerId |-> flat[Last(id)].playerKey]]

\* findPlayerLocation: the first roster entry whose normalized id is playerId,
\* as a sequence of at most one [clubId, playerKey].
findPlayerLocation(clubs, playerId) ==
    LET Hit(e) == e.playfabId # "" /\ RemoveWhitespace(ToUpperCase(e.playfabId)) = playerId
        hits == SelectSeq(FlatRoster(clubs), Hit)
    IN  IF hits = <<>> THEN <<>>
        ELSE <<[clubId |-> hits[1].clubId, playerKey |-> hits[1].playerKey]>>

\* The first club record whose name is clubName, as a sequence of at most one id.
FindClubByName(clubs, clubName) ==
    LET Hit(c) == c.name = clubName
        hits == SelectSeq(clubs, Hit)
    IN  IF hits = <<>> THEN <<>> ELSE <<hits[1].id>>

\* The roster of the store: Club A (one id stored in lower case with a
\* space), Club B, and nobody else.
Roster ==
    <<[id |-> "c1", name |-> "Club A",
       players |-> <<[key |-> "k1", playfabId |-> "a 1", name |-> "Ann"],
                     [key |-> "k2", playfabId |-> "A2", name |-> "Bo"],
                     [key |-> "k3", playfabId |-> "A3", name |-> "Cy"]>>],
      [id |-> "c2", name |-> "Club B",
       players |-> <<[key |-> "k1", playfabId |-> "B1", name |-> "Di"],
                     [key |-> "k2", playfabId |-> "B2", name |-> "Ed"],
                     [key |-> "k3", playfabId |-> "B3", name |-> "Flo"]>>]>>

\* ------------------------------------------------------------ teams of a feed

\* Whether a property name is an array index (JavaScript lists these first,
\* in ascending numeric order, whatever the insertion order).
IsArrayIndex(k) == k \in {"3", "7"}

ArrayIndexValue(k) == IF k = "3" THEN 3 ELSE 7

RECURSIVE AscendingKeys(_)
AscendingKeys(S) ==
    IF S = {} THEN <<>>
    ELSE LET m == CHOOSE k \in S : \A o \in S : ArrayIndexValue(k) <= ArrayIndexValue(o)
         IN  <<m>> \o AscendingKeys(S \ {m})

\* Object.keys of an object whose keys were inserted in the order `inserted`.
ObjectKeys(inserted) ==
    LET NotIndex(k) == ~IsArrayIndex(k)
    IN  AscendingKeys({k \in Range(inserted) : IsArrayIndex(k)})
        \o SelectSeq(inserted, NotIndex)

\* Object.entries of teams = [keys: insertion order, at: partyId -> team].
ObjectEntries(teams) ==
    LET ks == ObjectKeys(teams.keys)
    IN  [i \in 1..Len(ks) |-> [partyId |-> ks[i], team |-> teams.at[ks[i]]]]

\* Mutant of AddToTeam: the name of a competitor that is not in the roster is
\* not pushed.
AddToTeamNamedOnly(old, placement, clubName, playerId, playerName, known) ==
    [placements |-> Append(old.placements, placement),
     clubNames |-> Append(old.clubNames, clubName),
     playerIds |-> Append(old.playerIds, playerId),
     playerNames |-> IF known THEN Append(old.playerNames, playerName) ELSE old.playerNames,
     hasUnregisteredPlayers |-> old.hasUnregisteredPlayers \/ ~known]

\* The four pushes that add a row to its team, after the flag for a
\* competitor that is not in the roster.
AddToTeam(old, placement, clubName, playerId, playerName, known) ==
    [placements |-> Append(old.placements, placement),
     clubNames |-> Append(old.clubNames, clubName),
     playerIds |-> Append(old.playerIds, playerId),
     playerNames |-> Append(old.playerNames, playerName),
     hasUnregisteredPlayers |-> old.hasUnregisteredPlayers \/ ~known]

RECURSIVE groupPlayersByTeam(_, _, _)
\* groupPlayersByTeam(tournamentData, players), with the teams built so far.
groupPlayersByTeam(rows, players, teams) ==
    IF rows = <<>> THEN teams
    ELSE
        LET row == Head(rows)
            playerId == ToUpperCase(row.userPlayfabId)
            placement == ParseInt(row.userPlace)
            partyId == row.partyId
            known == playerId \in DOMAIN players
            clubName == IF known THEN players[playerId].clubName ELSE NoClub
            playerName == IF known THEN players[playerId].name ELSE "Unknown Player"
            old == IF partyId \in DOMAIN teams.at THEN teams.at[partyId]
                   ELSE [placements |-> <<>>, clubNames |-> <<>>, playerIds |-> <<>>,
                         playerNames |-> <<>>, hasUnregisteredPlayers |-> FALSE]
            new == AddToTeam(old, placement.v, clubName, playerId, playerName, known)
        IN  IF playerId = "" \/ partyId = "" \/ placement.nan
               \/ placement.v < 1 \/ placement.v > 4
            THEN groupPlayersByTeam(Tail(rows), players, teams)
            ELSE Only({groupPlayersByTeam(Tail(rows), players, grown) : grown \in
                    {[keys |-> IF partyId \in DOMAIN teams.at THEN teams.keys
                               ELSE Append(teams.keys, partyId),
                      at |-> [k \in DOMAIN teams.at \cup {partyId} |->
                                 IF k = partyId THEN new ELSE teams.at[k]]]}})

EmptyObject == [keys |-> <<>>, at |-> <<>>]

\* Array.prototype.sort by Math.min(...placements), which is stable, then the
\* entries put back into an object in that order.
sortTeamsByPlacement(teams) ==
    LET entries == ObjectEntries(teams)
        Best(e) == MinOf(e.team.placements)
        P1(e) == Best(e) = 1
        P2(e) == Best(e) = 2
        P3(e) == Best(e) = 3
        P4(e) == Best(e) = 4
        sorted == SelectSeq(entries, P1) \o SelectSeq(entries, P2)
                  \o SelectSeq(entries, P3) \o SelectSeq(entries, P4)
    IN  [keys |-> [i \in 1..Len(sorted) |-> sorted[i].partyId], at |-> teams.at]

\* ------------------------------------------------------------- store writes

\* Paths of the store: a totalPoints path and a placement-counter path.
\* scope is "overall" (season 0) or "seasons" with the season number.
PointsKey(coll, id, sub, scope, season) == <<coll, id, sub, scope, season>>

StatKey(coll, id, sub, scope, season, t, field) == <<coll, id, sub, scope, season, t, field>>

\* One awaited store call: a read (no effect), an update adding `add` to every
\* key of `keys`, or a set of `keys` to the value of `copy` plus `add`.
ReadOp == [tbl |-> "read", keys |-> {}, add |-> 0, copy |-> <<>>]

AddOp(tbl, keys, add) == [tbl |-> tbl, keys |-> keys, add |-> add, copy |-> <<>>]

RECURSIVE PutAll(_, _, _, _)
PutAll(m, keys, add, copy) ==
    IF keys = {} THEN m
    ELSE LET k == CHOOSE x \in keys : TRUE
             base == IF copy = <<>> THEN Get(m, k) ELSE Get(m, copy[1])
         IN  PutAll(Put(m, k, base + add), keys \ {k}, add, copy)

ApplyOp(db, op) ==
    CASE op.tbl = "points" ->
            [db EXCEPT !.points = PutAll(db.points, op.keys, op.add, op.copy)]
      [] op.tbl = "stats" ->
            [db EXCEPT !.stats = PutAll(db.stats, op.keys, op.add, op.copy)]
      [] OTHER -> db

RECURSIVE ApplyOps(_, _)
\* The stores after 0, 1, ... Len(ops) calls of `ops` completed, in that order.
ApplyOps(db, ops) ==
    IF ops = <<>> THEN <<db>>
    ELSE Only({<<db>> \o ApplyOps(next, Tail(ops)) : next \in {ApplyOp(db, Head(ops))}})

\* The two counter updates of a Promise.all, season first.
CounterOps(coll, id, sub, t, placement, season) ==
    LET statField == getStatFieldForPlacement(placement)
    IN  IF statField = "" THEN <<>>
        ELSE <<AddOp("stats", {StatKey(coll, id, sub, "seasons", season, t, statField)}, 1),
               AddOp("stats", {StatKey(coll, id, sub, "overall", 0, t, statField)}, 1)>>

\* Mutant of updateIndividualPlayerResult: no early return for tier Unknown.
updateIndividualPlayerResultAnyTier(playerId, t, placement, pts, season) ==
    <<ReadOp>>
    \o CounterOps("players", playerId, "", t, placement, season)
    \o <<AddOp("points", {PointsKey("players", playerId, "", "overall", 0)}, pts),
         AddOp("points", {PointsKey("players", playerId, "", "seasons", season)}, pts)>>

\* updateIndividualPlayerResult(playerId, tier, placement, points)
updateIndividualPlayerResult(playerId, t, placement, pts, season) ==
    IF t = "Unknown" THEN <<>>
    ELSE <<ReadOp>>
         \o CounterOps("players", playerId, "", t, placement, season)
         \o <<AddOp("points", {PointsKey("players", playerId, "", "overall", 0)}, pts),
              AddOp("points", {PointsKey("players", playerId, "", "seasons", season)}, pts)>>

\* Mutant of updatePlayerPoints: the write goes to the place the competitor
\* had in the roster the store started with, found or not.
updatePlayerPointsAtFirstLocation(clubs, playerId, pts, season) ==
    LET loc == findPlayerLocation(Roster, playerId)
    IN  IF loc = <<>> THEN <<>>
        ELSE <<AddOp("points",
                     {PointsKey("clubPlayers", loc[1].clubId, loc[1].playerKey, "overall", 0),
                      PointsKey("clubPlayers", loc[1].clubId, loc[1].playerKey, "seasons", season)},
                     pts)>>

\* updatePlayerPoints(playerId, points)
updatePlayerPoints(clubs, playerId, pts, season) ==
    LET loc == findPlayerLocation(clubs, playerId)
    IN  IF loc = <<>> THEN <<>>
        ELSE <<AddOp("points",
                     {PointsKey("clubPlayers", loc[1].clubId, loc[1].playerKey, "overall", 0),
                      PointsKey("clubPlayers", loc[1].clubId, loc[1].playerKey, "seasons", season)},
                     pts)>>

\* updatePlayerTournamentStats(playerId, tier, placement)
updatePlayerTournamentStats(clubs, playerId, t, placement, season) ==
    LET loc == findPlayerLocation(clubs, playerId)
    IN  IF t = "Unknown" \/ loc = <<>> THEN <<>>
        ELSE CounterOps("clubPlayers", loc[1].clubId, loc[1].playerKey, t, placement, season)

\* updateClubPoints(clubName, points)
updateClubPoints(clubs, clubName, pts, season) ==
    LET hit == FindClubByName(clubs, clubName)
    IN  <<ReadOp>>
        \o IF hit = <<>> THEN <<>>
           ELSE <<AddOp("points",
                        {PointsKey("clubs", hit[1], "", "overall", 0),
                         PointsKey("clubs", hit[1], "", "seasons", season)}, pts),
                  [tbl |-> "points",
                   keys |-> {PointsKey("clubs_summary", hit[1], "", "overall", 0)},
                   add |-> 0,
                   copy |-> <<PointsKey("clubs", hit[1], "", "overall", 0)>>]>>

\* updateClubTournamentStats(clubName, tier, placement)
updateClubTournamentStats(clubs, clubName, t, placement, season) ==
    LET hit == FindClubByName(clubs, clubName)
    IN  IF t = "Unknown" THEN <<>>
        ELSE <<ReadOp>>
             \o IF hit = <<>> THEN <<>>
                ELSE CounterOps("clubs", hit[1], "", t, placement, season)

\* ------------------------------------------------------- processTeamResults

IsClub(c) == c # NoClub

uniqueClubs(team) == {c \in Range(team.clubNames) : IsClub(c)}

hasThreePlayers(team) == Len(team.playerIds) = 3

\* const placement = team.placements[0]
TeamPlacement(team) == team.placements[1]

\* Mutant of allPlayersFromSameClub: members of no club are not counted.
allPlayersFromSameClubIgnoringNoClub(team) ==
    /\ hasThreePlayers(team)
    /\ Cardinality(uniqueClubs(team)) = 1

allPlayersFromSameClub(team) ==
    /\ hasThreePlayers(team)
    /\ Cardinality(uniqueClubs(team)) = 1
    /\ Len(SelectSeq(team.clubNames, IsClub)) = 3

\* team.clubNames.find(club => club !== 'No Club')
AwardClubName(team) == SelectSeq(team.clubNames, IsClub)[1]

\* Whether the call reaches the club update of the team.
CreditsClub(team, awarded) ==
    allPlayersFromSameClub(team) /\ AwardClubName(team) \notin awarded

RECURSIVE IndividualLoop(_, _, _, _, _)
\* The loop over the members that records individual results, from member i.
IndividualLoop(team, pointsForPlacement, t, season, i) ==
    IF i > Len(team.playerIds) THEN <<>>
    ELSE updateIndividualPlayerResult(team.playerIds[i], t, team.placements[i],
                PointsAt(pointsForPlacement, team.placements[i]), season)
         \o IndividualLoop(team, pointsForPlacement, t, season, i + 1)

RECURSIVE ClubPlayerLoop(_, _, _, _, _, _, _)
\* The loop over the members that updates their records inside the club.
ClubPlayerLoop(team, pointsForPlacement, t, players, clubs, season, i) ==
    IF i > Len(team.playerIds) THEN <<>>
    ELSE (IF team.playerIds[i] \in DOMAIN players
          THEN updatePlayerPoints(clubs, team.playerIds[i],
                    PointsAt(pointsForPlacement, team.placements[i]), season)
               \o updatePlayerTournamentStats(clubs, team.playerIds[i], t,
                    team.placements[i], season)
          ELSE <<>>)
         \o ClubPlayerLoop(team, pointsForPlacement, t, players, clubs, season, i + 1)

\* Mutant of TeamOps: individual results only for club-eligible teams.
TeamOpsIndividualIfEligible(team, pointsForPlacement, t, awarded, players, clubs, season) ==
    (IF allPlayersFromSameClub(team)
     THEN IndividualLoop(team, pointsForPlacement, t, season, 1)
          \o ClubPlayerLoop(team, pointsForPlacement, t, players, clubs, season, 1)
     ELSE <<>>)
    \o (IF CreditsClub(team, awarded)
        THEN updateClubPoints(clubs, AwardClubName(team),
                 PointsAt(pointsForPlacement, TeamPlacement(team)), season)
             \o updateClubTournamentStats(clubs, AwardClubName(team), t,
                 TeamPlacement(team), season)
        ELSE <<>>)

\* Mutant of TeamOps: the members' records inside the club are written only
\* by the team that credits the club.
TeamOpsClubPlayersIfCredited(team, pointsForPlacement, t, awarded, players, clubs, season) ==
    IndividualLoop(team, pointsForPlacement, t, season, 1)
    \o (IF CreditsClub(team, awarded)
        THEN ClubPlayerLoop(team, pointsForPlacement, t, players, clubs, season, 1)
             \o updateClubPoints(clubs, AwardClubName(team),
                    PointsAt(pointsForPlacement, TeamPlacement(team)), season)
             \o updateClubTournamentStats(clubs, AwardClubName(team), t,
                    TeamPlacement(team), season)
        ELSE <<>>)

\* The awaited store calls of processTeamResults, in order.
TeamOps(team, pointsForPlacement, t, awarded, players, clubs, season) ==
    IndividualLoop(team, pointsForPlacement, t, season, 1)
    \o (IF allPlayersFromSameClub(team)
        THEN ClubPlayerLoop(team, pointsForPlacement, t, players, clubs, season, 1)
        ELSE <<>>)
    \o (IF CreditsClub(team, awarded)
        THEN updateClubPoints(clubs, AwardClubName(team),
                 PointsAt(pointsForPlacement, TeamPlacement(team)), season)
             \o updateClubTournamentStats(clubs, AwardClubName(team), t,
                 TeamPlacement(team), season)
        ELSE <<>>)

\* The value processTeamResults returns when no call failed.
TeamResult(team, pointsForPlacement, awarded) ==
    IF CreditsClub(team, awarded)
    THEN [processed |-> TRUE, clubName |-> AwardClubName(team),
          pointsAwarded |-> PointsAt(pointsForPlacement, TeamPlacement(team)),
          placement |-> TeamPlacement(team), individualResults |-> Len(team.playerIds)]
    ELSE [processed |-> FALSE, clubName |-> "", pointsAwarded |-> 0,
          placement |-> 0, individualResults |-> Len(team.playerIds)]

\* Mutant of TeamError: the catch block reports the members of a team of three.
TeamErrorCountingMembers ==
    [processed |-> FALSE, clubName |-> "", pointsAwarded |-> 0, placement |-> 0,
     individualResults |-> 3]

\* The value the catch block of processTeamResults returns.
TeamError ==
    [processed |-> FALSE, clubName |-> "", pointsAwarded |-> 0, placement |-> 0,
     individualResults |-> 0]

NoResult ==
    [processed |-> FALSE, clubName |-> "", pointsAwarded |-> 0, placement |-> 0,
     individualResults |-> -1]

\* ------------------------------------------------------------------ the feed

Row(id, party, place) == [userPlayfabId |-> id, partyId |-> party, userPlace |-> place]

\* The tournament lists the feed may answer with.
Feeds(cat) ==
    {[i \in 1..Len(ids) |-> [tournamentId |-> ids[i], name |-> cat[ids[i]].name]] :
        ids \in SeqsUpTo(DOMAIN cat, MaxFeed)}

\* What an answered fetch of the tournament list may give (response.ok), with
\* what response.json() gives: an array, or an object that is no array (with
\* the list inside it).
Responses(feeds) ==
    {[ok |-> TRUE, isArray |-> a, items |-> f] : a \in BOOLEAN, f \in feeds}

\* No usable response: the fetch threw or answered with an error status.
NoResponse == [ok |-> FALSE, isArray |-> FALSE, items |-> <<>>]

\* Mutant of IsArray: every parsed response is taken for an array.
IsArrayAlways(r) == TRUE

\* Array.isArray(tournaments)
IsArray(r) == r.isArray

\* No function is under test.
NoCall == [fn |-> "", arg |-> <<>>, returns |-> <<>>]

current == tournaments[idx].tournamentId

\* A feed of two tournaments: one with two same-club teams of three, and one
\* of no tracked tier.
RunCatalog ==
    [t \in {"t1", "t2"} |->
        IF t = "t1"
        THEN [name |-> Str(<<"EU", "Silver", "Cup", "1">>), array |-> TRUE,
              rows |-> <<Row("A1", "X", "1"), Row("A2", "X", "1"), Row("A3", "X", "1"),
                         Row("A1", "Y", "2"), Row("A2", "Y", "2"), Row("A3", "Y", "2")>>]
        ELSE [name |-> Str(<<"Championship">>), array |-> TRUE,
              rows |-> <<Row("A1", "X", "1"), Row("A2", "X", "1"), Row("A3", "X", "1")>>]]

\* ---------------------------------------------------------------- the state

InitStore ==
    /\ markers = {}
    /\ points = <<>>
    /\ stats = <<>>
    /\ pc = "idle"
    /\ currentSeason = 1
    /\ tournaments = <<>>
    /\ idx = 1
    /\ tier = "Unknown"
    /\ playersCache = <<>>
    /\ sortedTeams = <<>>
    /\ teamIdx = 1
    /\ clubsAlreadyAwarded = {}
    /\ processResult = NoResult
    /\ run = 0
    /\ checked = {}
    /\ failed = {}
    /\ failedBefore = {}
    /\ markedNow = {}
    /\ markersAtStart = {}
    /\ scoredRuns = [t \in DOMAIN catalog |-> {}]
    /\ clubCredits = <<>>
    /\ snap = [points |-> <<>>, stats |-> <<>>]
    /\ runFailures = 0
    /\ response = NoResponse

\* The process runs, the PlayFab sync is not configured, no trophy value is
\* stored and no second instance exists.
InitOther ==
    /\ exitCode = <<>>
    /\ PLAYFAB_ENABLED = FALSE
    /\ trophies = <<>>
    /\ trophyWrites = {}
    /\ instances = <<>>

Init ==
    /\ catalog = RunCatalog
    /\ clubsDb = Roster
    /\ seasonSetting \in {0, 2}
    /\ runsLeft = MaxRuns
    /\ failuresLeft = MaxFailures
    /\ call = NoCall
    /\ InitStore
    /\ InitOther

\* The run's history, reset when a run starts.
StartHistory ==
    /\ run' = run + 1
    /\ checked' = {}
    /\ failed' = {}
    /\ failedBefore' = failed
    /\ markedNow' = {}
    /\ markersAtStart' = markers

\* loadCurrentSeason: snapshot.val() || 1, and 1 when the read fails.
loadCurrentSeason(ok) == IF ok /\ seasonSetting # 0 THEN seasonSetting ELSE 1

\* initializeTournamentFetcher up to the tournament list: the season is
\* loaded, then the list is fetched; a failed fetch ends the run.
StartRunWith(feeds) ==
    /\ pc \in {"idle", "exited"}
    /\ runsLeft > 0
    /\ runsLeft' = runsLeft - 1
    /\ StartHistory
    /\ \E seasonOk \in BOOLEAN, listOk \in BOOLEAN :
        /\ (~seasonOk \/ ~listOk) => failuresLeft > 0
        /\ ~(~seasonOk /\ ~listOk)
        /\ failuresLeft' = IF seasonOk /\ listOk THEN failuresLeft ELSE failuresLeft - 1
        /\ runFailures' = IF seasonOk /\ listOk THEN 0 ELSE 1
        /\ currentSeason' = loadCurrentSeason(seasonOk)
        /\ IF listOk
           THEN \E r \in Responses(feeds) :
                    /\ response' = r
                    /\ tournaments' = IF IsArray(r) THEN r.items ELSE <<>>
                    /\ pc' = IF IsArray(r) THEN "check" ELSE "done"
           ELSE /\ response' = NoResponse
                /\ tournaments' = <<>>
                /\ pc' = "done"
    /\ idx' = 1
    /\ exitCode' = <<>>
    /\ UNCHANGED <<PLAYFAB_ENABLED, trophies, trophyWrites, instances, call, catalog, clubsDb, seasonSetting, markers, points, stats, tier,
                   playersCache, sortedTeams, teamIdx, clubsAlreadyAwarded,
                   processResult, scoredRuns, clubCredits, snap>>

\* A run whose feed answers with a list of distinct tournaments.
StartRun == StartRunWith(Feeds(catalog))

\* isTournamentAlreadyProcessed: the marker's existence, false when the read fails.
isTournamentAlreadyProcessed(tournamentId, ok) == ok /\ tournamentId \in markers

\* Mutant of NextTournament: the loop stays on the same element.
SameTournament(i) == i

\* for (const tournament of tournaments): the loop goes on to the element that
\* follows, so a finite list is gone through in finitely many iterations.
NextTournament(i) == i + 1

\* One turn of the loop of fetchAndProcessTournaments up to the marker check.
CheckTournament ==
    /\ pc = "check"
    /\ idx <= Len(tournaments)
    /\ tier' = getTierFromName(tournaments[idx].name)
    /\ checked' = checked \cup {current}
    /\ \E ok \in BOOLEAN :
        /\ ~ok => failuresLeft > 0
        /\ failuresLeft' = IF ok THEN failuresLeft ELSE failuresLeft - 1
        /\ runFailures' = IF ok THEN runFailures ELSE runFailures + 1
        /\ IF isTournamentAlreadyProcessed(current, ok)
           THEN /\ idx' = NextTournament(idx)
                /\ pc' = "check"
           ELSE /\ idx' = idx
                /\ pc' = "fetch"
    /\ UNCHANGED <<otherVars, response, call, catalog, clubsDb, seasonSetting, markers, points, stats,
                   currentSeason, tournaments, playersCache, sortedTeams, teamIdx,
                   clubsAlreadyAwarded, processResult, runsLeft, run, failed,
                   failedBefore, markedNow, markersAtStart, scoredRuns, clubCredits,
                   snap>>

\* Mutant of FreshClubsAlreadyAwarded: the set of the tournament before is
\* carried over.
ClubsAlreadyAwardedCarriedOver(previous) == previous

\* const clubsAlreadyAwarded = new Set(), whatever set a tournament before had.
FreshClubsAlreadyAwarded(previous) == {}

\* Mutant of TeamsToProcess: the teams displayTop4Teams shows, slice(0, 4).
top4Teams(teamEntries) ==
    SubSeq(teamEntries, 1, IF Len(teamEntries) < 4 THEN Len(teamEntries) ELSE 4)

\* The teams the loop of processTournamentResults goes over:
\* for (const [teamId, team] of Object.entries(sortedTeams)).
TeamsToProcess(teamEntries) == teamEntries

\* fetchAndProcessTournamentData up to the first team: the participants are
\* fetched, the roster cache is rebuilt and the teams are built and ordered.
\* A failed fetch, a response that is no array or a failed roster read throws,
\* and the exception leaves the loop of fetchAndProcessTournaments.
FetchTournamentData ==
    /\ pc = "fetch"
    /\ \E ok \in BOOLEAN :
        /\ ~ok => failuresLeft > 0
        /\ failuresLeft' = IF ok THEN failuresLeft ELSE failuresLeft - 1
        /\ runFailures' = IF ok THEN runFailures ELSE runFailures + 1
        /\ IF ok /\ catalog[current].array
           THEN \E players \in {fetchClubsAndPlayers(clubsDb)} :
                \E teams \in {groupPlayersByTeam(catalog[current].rows, players, EmptyObject)} :
                \E entries \in {TeamsToProcess(ObjectEntries(sortTeamsByPlacement(teams)))} :
                    /\ playersCache' = players
                    /\ sortedTeams' = entries
                    /\ pc' = IF entries = <<>> THEN "mark" ELSE "team"
                    /\ failed' = failed
           ELSE /\ UNCHANGED <<playersCache, sortedTeams>>
                /\ pc' = "done"
                /\ failed' = failed \cup {current}
    /\ teamIdx' = 1
    /\ clubsAlreadyAwarded' = FreshClubsAlreadyAwarded(clubsAlreadyAwarded)
    /\ processResult' = NoResult
    /\ clubCredits' = <<>>
    /\ snap' = [points |-> points, stats |-> stats]
    /\ UNCHANGED <<otherVars, response, call, catalog, clubsDb, seasonSetting, markers, points, stats,
                   currentSeason, tournaments, idx, tier, runsLeft, run, checked,
                   failedBefore, markedNow, markersAtStart, scoredRuns>>

\* The club ids whose totalPoints or counters differ between two stores.
ClubsWritten(old, new) ==
    {k[2] : k \in {x \in DOMAIN new.points : x[1] = "clubs" /\ Get(old.points, x) # new.points[x]}}
    \cup {k[2] : k \in {x \in DOMAIN new.stats : x[1] = "clubs" /\ Get(old.stats, x) # new.stats[x]}}

\* processTeamResults for the next team of the tournament: the first k store
\* calls complete; when a call fails the catch block ends the team.
ProcessTeam ==
    /\ pc = "team"
    /\ \E ops \in {TeamOps(sortedTeams[teamIdx].team, getPointsMapping(tier), tier,
                           clubsAlreadyAwarded, playersCache, clubsDb, currentSeason)} :
       \E after \in {ApplyOps([points |-> points, stats |-> stats], ops)} :
       \E k \in 0..Len(ops) :
       \E new \in {after[k + 1]} :
       \E written \in {ClubsWritten([points |-> points, stats |-> stats], new)} :
            LET team == sortedTeams[teamIdx].team
                done == k = Len(ops)
            IN  /\ ~done => failuresLeft > 0
                /\ failuresLeft' = IF done THEN failuresLeft ELSE failuresLeft - 1
                /\ runFailures' = IF done THEN runFailures ELSE runFailures + 1
                /\ points' = new.points
                /\ stats' = new.stats
                /\ processResult' = IF done
                       THEN TeamResult(team, getPointsMapping(tier), clubsAlreadyAwarded)
                       ELSE TeamError
                /\ clubsAlreadyAwarded' =
                       IF done /\ CreditsClub(team, clubsAlreadyAwarded)
                       THEN clubsAlreadyAwarded \cup {AwardClubName(team)}
                       ELSE clubsAlreadyAwarded
                /\ failed' = IF done THEN failed ELSE failed \cup {current}
                /\ scoredRuns' =
                       IF new.points = points /\ new.stats = stats THEN scoredRuns
                       ELSE [scoredRuns EXCEPT ![current] = @ \cup {run}]
                /\ clubCredits' = [c \in DOMAIN clubCredits \cup written |->
                       (IF c \in DOMAIN clubCredits THEN clubCredits[c] ELSE {})
                       \cup (IF c \in written THEN {teamIdx} ELSE {})]
    /\ teamIdx' = teamIdx + 1
    /\ pc' = IF teamIdx = Len(sortedTeams) THEN "mark" ELSE "team"
    /\ UNCHANGED <<otherVars, response, call, catalog, clubsDb, seasonSetting, markers, currentSeason,
                   tournaments, idx, tier, playersCache, sortedTeams, runsLeft, run,
                   checked, failedBefore, markedNow, markersAtStart, snap>>

\* Mutant of markTournamentAsProcessed: the error of a failed write is logged
\* and not thrown again.
markTournamentAsProcessedSwallowing(ok) == [written |-> ok, thrown |-> FALSE]

\* markTournamentAsProcessed: the marker is set; a failed write is logged and
\* thrown again.
markTournamentAsProcessed(ok) == [written |-> ok, thrown |-> ~ok]

\* markTournamentAsProcessed and the end of the loop turn; a failed write
\* throws and the exception leaves the loop.
MarkTournament ==
    /\ pc = "mark"
    /\ \E ok \in BOOLEAN :
        /\ ~ok => failuresLeft > 0
        /\ failuresLeft' = IF ok THEN failuresLeft ELSE failuresLeft - 1
        /\ runFailures' = IF ok THEN runFailures ELSE runFailures + 1
        /\ \E marked \in {markTournamentAsProcessed(ok)} :
            /\ markers' = IF marked.written THEN markers \cup {current} ELSE markers
            /\ markedNow' = IF marked.written THEN markedNow \cup {current} ELSE markedNow
            /\ IF marked.thrown
               THEN /\ idx' = idx
                    /\ pc' = "done"
                    /\ failed' = failed \cup {current}
               ELSE /\ idx' = NextTournament(idx)
                    /\ pc' = "check"
                    /\ failed' = failed
    /\ UNCHANGED <<otherVars, response, call, catalog, clubsDb, seasonSetting, points, stats, currentSeason,
                   tournaments, tier, playersCache, sortedTeams, teamIdx,
                   clubsAlreadyAwarded, processResult, runsLeft, run, checked,
                   failedBefore, markersAtStart, scoredRuns, clubCredits, snap>>

\* The loop of fetchAndProcessTournaments is over.
FinishRun ==
    /\ pc = "check"
    /\ idx > Len(tournaments)
    /\ pc' = "done"
    /\ UNCHANGED <<otherVars, response, call, catalog, clubsDb, seasonSetting, markers, points, stats,
                   currentSeason, tournaments, idx, tier, playersCache, sortedTeams,
                   teamIdx, clubsAlreadyAwarded, processResult, runsLeft,
                   failuresLeft, run, checked, failed, failedBefore, markedNow,
                   markersAtStart, scoredRuns, clubCredits, snap, runFailures>>

\* ------------------------------------------------------ the sync and the exit

\* Paths of the store that hold a trophy figure: trophyCount of a member
\* inside its club and of a competitor (lifetime and season), totalTrophies of
\* a club (lifetime and season) and of its summary.
TrophyKey(coll, id, sub, season) == <<coll, id, sub, season>>

\* What PlayFab answers for one competitor: a display name ("" when the
\* profile call gives null or no DisplayName) and the statistic
\* NUM_TROPHIES_SEASON (-1 when the statistics call gives null or no such
\* statistic).  An answer holds a name, a statistic or neither.
PlayFabAnswers ==
    {[name |-> "", trophies |-> t] : t \in (0 - 1)..MaxTrophies}
    \cup {[name |-> "Zed", trophies |-> 0 - 1]}

\* The members the sync asks PlayFab about: those that have a playfabId.
SyncedMembers(clubs) ==
    UNION {{<<c, m>> : m \in {i \in 1..Len(clubs[c].players) :
                                clubs[c].players[i].playfabId # ""}} :
           c \in 1..Len(clubs)}

\* playerUpdates.name of a member, "" when the name is not updated.
NameUpdate(player, answer) ==
    IF answer.name # "" /\ answer.name # player.name THEN answer.name ELSE ""

\* Whether playerUpdates.trophyCount of a member is set.
TrophyUpdate(tr, clubId, player, answer) ==
    /\ answer.trophies # 0 - 1
    /\ answer.trophies # Get(tr, TrophyKey("clubs", clubId, player.key, 0))

RECURSIVE PutEach(_, _, _)
\* A multi-path update that sets every path of `keys` to v.
PutEach(m, keys, v) ==
    IF keys = {} THEN m
    ELSE LET k == CHOOSE x \in keys : TRUE IN PutEach(Put(m, k, v), keys \ {k}, v)

RECURSIVE PlayerTrophyUpdates(_, _, _, _, _)
\* The trophy values after the batch of member updates: the member's record
\* in its club and its record among the competitors, lifetime and season.
PlayerTrophyUpdates(tr, clubs, members, answers, season) ==
    IF members = {} THEN tr
    ELSE LET x == CHOOSE y \in members : TRUE
             club == clubs[x[1]]
             player == club.players[x[2]]
             normalizedId == RemoveWhitespace(ToUpperCase(player.playfabId))
             next == IF TrophyUpdate(tr, club.id, player, answers[x])
                     THEN PutEach(tr, {TrophyKey("clubs", club.id, player.key, 0),
                                       TrophyKey("players", normalizedId, "", 0),
                                       TrophyKey("players", normalizedId, "seasons", season)},
                                  answers[x].trophies)
                     ELSE tr
         IN  PlayerTrophyUpdates(next, clubs, members \ {x}, answers, season)

\* The roster after the batch of member updates: the display names PlayFab gave.
PlayerNameUpdates(clubs, answers) ==
    [c \in 1..Len(clubs) |->
        [clubs[c] EXCEPT !.players =
            [m \in 1..Len(clubs[c].players) |->
                IF /\ <<c, m>> \in DOMAIN answers
                   /\ NameUpdate(clubs[c].players[m], answers[<<c, m>>]) # ""
                THEN [clubs[c].players[m] EXCEPT !.name = answers[<<c, m>>].name]
                ELSE clubs[c].players[m]]]]

\* Whether the batch of member updates holds an update.
HasPlayerUpdates(tr, clubs, answers) ==
    \E x \in DOMAIN answers :
        \/ NameUpdate(clubs[x[1]].players[x[2]], answers[x]) # ""
        \/ TrophyUpdate(tr, clubs[x[1]].id, clubs[x[1]].players[x[2]], answers[x])

RECURSIVE SumTrophies(_, _, _)
\* clubTotalTrophies: the sum of playerData.trophyCount || 0 over the members
\* of a club, from member i on.
SumTrophies(tr, club, i) ==
    IF i > Len(club.players) THEN 0
    ELSE Get(tr, TrophyKey("clubs", club.id, club.players[i].key, 0))
         + SumTrophies(tr, club, i + 1)

\* Mutant of NeedsTrophyUpdate: only the lifetime figure is compared.
NeedsTrophyUpdateLifetimeOnly(tr, club, season) ==
    /\ Len(club.players) > 0
    /\ SumTrophies(tr, club, 1) # Get(tr, TrophyKey("clubs", club.id, "", 0))

\* Whether the club trophy update writes a club: it has members and its
\* lifetime or its season figure differs from the sum.
NeedsTrophyUpdate(tr, club, season) ==
    /\ Len(club.players) > 0
    /\ \/ SumTrophies(tr, club, 1) # Get(tr, TrophyKey("clubs", club.id, "", 0))
       \/ SumTrophies(tr, club, 1) # Get(tr, TrophyKey("clubs", club.id, "seasons", season))

RECURSIVE ClubTrophyUpdates(_, _, _, _)
\* The trophy values after the club trophy update, from club i on.
ClubTrophyUpdates(tr, clubs, season, i) ==
    IF i > Len(clubs) THEN tr
    ELSE LET club == clubs[i]
             next == IF NeedsTrophyUpdate(tr, club, season)
                     THEN PutEach(tr, {TrophyKey("clubs", club.id, "", 0),
                                       TrophyKey("clubs_summary", club.id, "", 0),
                                       TrophyKey("clubs", club.id, "seasons", season)},
                                  SumTrophies(tr, club, 1))
                     ELSE tr
         IN  ClubTrophyUpdates(next, clubs, season, i + 1)

\* The store calls of syncPlayFabPlayerData that may fail: the read of the
\* clubs, the batch of member updates, the second read of the clubs, and the
\* club trophy update.  A failed call ends the sync in its catch block.
SyncCalls == <<"clubs", "players", "clubsAgain", "totals">>

\* syncPlayFabPlayerData: `completed` calls of SyncCalls succeed.
SyncPlayFabPlayerData ==
    /\ pc = "done"
    /\ pc' = "synced"
    /\ IF ~PLAYFAB_ENABLED
       THEN /\ trophyWrites' = {}
            /\ UNCHANGED <<clubsDb, trophies, failuresLeft, runFailures>>
       ELSE \E answers \in [SyncedMembers(clubsDb) -> PlayFabAnswers] :
            \E completed \in 0..Len(SyncCalls) :
                LET hasUpdates == HasPlayerUpdates(trophies, clubsDb, answers)
                    afterPlayers ==
                        PlayerTrophyUpdates(trophies, clubsDb, DOMAIN answers, answers,
                                            currentSeason)
                    updatedClubs == PlayerNameUpdates(clubsDb, answers)
                    written == {updatedClubs[c].id : c \in
                                   {i \in 1..Len(updatedClubs) :
                                       NeedsTrophyUpdate(afterPlayers, updatedClubs[i],
                                                         currentSeason)}}
                    done == completed = Len(SyncCalls)
                IN  /\ ~done => failuresLeft > 0
                    \* a call that is not made cannot fail
                    /\ (completed = 1) => hasUpdates
                    /\ (completed = 3) => written # {}
                    /\ failuresLeft' = IF done THEN failuresLeft ELSE failuresLeft - 1
                    /\ runFailures' = IF done THEN runFailures ELSE runFailures + 1
                    /\ clubsDb' = IF completed >= 2 THEN updatedClubs ELSE clubsDb
                    /\ trophies' =
                           IF done
                           THEN ClubTrophyUpdates(afterPlayers, updatedClubs, currentSeason, 1)
                           ELSE IF completed >= 2 THEN afterPlayers ELSE trophies
                    /\ trophyWrites' = IF done THEN written ELSE {}
    /\ UNCHANGED <<catalog, seasonSetting, markers, points, stats, currentSeason,
                   tournaments, idx, tier, playersCache, sortedTeams, teamIdx,
                   clubsAlreadyAwarded, processResult, runsLeft, run, checked, failed,
                   failedBefore, markedNow, markersAtStart, scoredRuns, clubCredits,
                   snap, response, call, exitCode, PLAYFAB_ENABLED, instances>>

\* Mutant of Rejects: a run in which a call failed rejects.
RejectsAfterFailure(failures) == failures > 0

\* Whether the promise of initializeTournamentFetcher is rejected: its catch
\* block takes every error of the run and returns.
Rejects(failures) == FALSE

\* main: the promise of initializeTournamentFetcher settles and the process exits.
Exit ==
    /\ pc = "synced"
    /\ pc' = "exited"
    /\ exitCode' = IF Rejects(runFailures) THEN <<1>> ELSE <<0>>
    /\ UNCHANGED <<catalog, clubsDb, seasonSetting, markers, points, stats, currentSeason,
                   tournaments, idx, tier, playersCache, sortedTeams, teamIdx,
                   clubsAlreadyAwarded, processResult, runsLeft, failuresLeft, run,
                   checked, failed, failedBefore, markedNow, markersAtStart,
                   scoredRuns, clubCredits, snap, runFailures, response, call,
                   PLAYFAB_ENABLED, trophies, trophyWrites, instances>>

Next ==
    \/ StartRun
    \/ CheckTournament
    \/ FetchTournamentData
    \/ ProcessTeam
    \/ MarkTournament
    \/ FinishRun
    \/ SyncPlayFabPlayerData
    \/ Exit

Spec == Init /\ [][Next]_vars

\* ------------------------------------------- one tournament, any rows

\* The rows a participant list is drawn from: the three members of Club A
\* (one id in lower case, one member twice), a member of Club B, a competitor
\* of no club, a second party, and a row whose placement is out of range.
RowPool ==
    {Row("a1", "X", "2"), Row("A2", "X", "1"), Row("A3", "X", "1"), Row("A1", "X", "1"),
     Row("B1", "X", "1"), Row("U1", "X", "3"), Row("A3", "Y", "4"), Row("A2", "X", "5")}

InitRows ==
    /\ \E rows \in SeqsUpTo(RowPool, MaxRows) :
        catalog = [t \in {"t1"} |->
                      [name |-> Str(<<"Round", "Madness", "EU">>), array |-> TRUE, rows |-> rows]]
    /\ clubsDb = Roster
    /\ seasonSetting = 2
    /\ runsLeft = 1
    /\ failuresLeft = 1
    /\ call = NoCall
    /\ InitStore
    /\ InitOther

SpecRows == InitRows /\ [][Next]_vars

\* ------------------------------------------- the end-to-end scenario

\* "EU Silver Cup 1": four teams of three, Club A second, Club B fourth.
ScenarioTeams ==
    <<<<Row("U1", "P1", "1"), Row("U2", "P1", "1"), Row("U3", "P1", "1")>>,
      <<Row("A1", "P2", "2"), Row("A2", "P2", "2"), Row("A3", "P2", "2")>>,
      <<Row("U4", "P3", "3"), Row("U5", "P3", "3"), Row("U6", "P3", "3")>>,
      <<Row("B1", "P4", "4"), Row("B2", "P4", "4"), Row("B3", "P4", "4")>>>>

\* The rows of the scenario with the teams in the order `order`.
ScenarioRows(order) ==
    ScenarioTeams[order[1]] \o ScenarioTeams[order[2]]
    \o ScenarioTeams[order[3]] \o ScenarioTeams[order[4]]

InitScenario ==
    /\ \E order \in {<<1, 2, 3, 4>>, <<4, 3, 2, 1>>, <<2, 4, 1, 3>>} :
        catalog = [t \in {"e1"} |->
                      [name |-> Str(<<"EU", "Silver", "Cup", "1">>), array |-> TRUE,
                       rows |-> ScenarioRows(order)]]
    /\ clubsDb = Roster
    /\ seasonSetting \in {0, 2}
    /\ runsLeft = MaxRuns
    /\ failuresLeft = MaxFailures
    /\ call = NoCall
    /\ InitStore
    /\ InitOther

SpecScenario == InitScenario /\ [][Next]_vars

\* ------------------------------------------- one tournament, any parties

\* Rows of competitors of no club in four parties, two of which have a
\* partyId that is a whole number.
OrderRowPool ==
    {Row("U1", "7", "1"), Row("U2", "3", "2"), Row("U3", "X", "3"), Row("U4", "Y", "4"),
     Row("U5", "X", "1"), Row("U6", "Y", "1"), Row("U7", "3", "1"), Row("U8", "7", "4")}

InitOrder ==
    /\ \E rows \in SeqsUpTo(OrderRowPool, MaxRows) :
        catalog = [t \in {"t1"} |->
                      [name |-> Str(<<"Round", "Madness", "EU">>), array |-> TRUE, rows |-> rows]]
    /\ clubsDb = Roster
    /\ seasonSetting = 2
    /\ runsLeft = 1
    /\ failuresLeft = 0
    /\ call = NoCall
    /\ InitStore
    /\ InitOther

SpecOrder == InitOrder /\ [][Next]_vars

\* ------------------------------------------- one tournament, rows of any shape

\* Rows of one party with ids that differ from the roster's in case or in
\* whitespace, a row of a second party, and rows with a missing id, a missing
\* party, and a placement that is no number, out of range, or a number
\* followed by letters.
GroupRowPool ==
    {Row("a1", "X", "1"), Row("a 1", "X", "1"), Row("A2", "X", "1"), Row("A3", "Y", "2"),
     Row("", "X", "1"), Row("A2", "", "1"), Row("A3", "X", "x"), Row("A2", "X", "0"),
     Row("A3", "X", "5"), Row("A2", "X", "3rd")}

InitGroup ==
    /\ \E rows \in SeqsUpTo(GroupRowPool, MaxRows) :
        catalog = [t \in {"t1"} |->
                      [name |-> Str(<<"Round", "Madness", "EU">>), array |-> TRUE, rows |-> rows]]
    /\ clubsDb = Roster
    /\ seasonSetting = 2
    /\ runsLeft = 1
    /\ failuresLeft = 0
    /\ call = NoCall
    /\ InitStore
    /\ InitOther

SpecGroup == InitGroup /\ [][Next]_vars

\* ------------------------------------------- a roster that changes under a run

\* The roster after another client of the store removed the third member of
\* Club A, and after it removed Club A.
EditedRosters ==
    {<<[Roster[1] EXCEPT !.players = SubSeq(@, 1, 2)], Roster[2]>>, <<Roster[2]>>}

\* Another client of the store edits the roster while the teams of a
\* tournament are processed, that is after fetchClubsAndPlayers built the
\* cache and before a write looks the club or the competitor up again.
RosterEdit ==
    /\ pc = "team"
    /\ clubsDb = Roster
    /\ clubsDb' \in EditedRosters
    /\ UNCHANGED <<catalog, seasonSetting, markers, points, stats, pc, currentSeason,
                   tournaments, idx, tier, playersCache, sortedTeams, teamIdx,
                   clubsAlreadyAwarded, processResult, runsLeft, failuresLeft, run,
                   checked, failed, failedBefore, markedNow, markersAtStart,
                   scoredRuns, clubCredits, snap, runFailures, response, call,
                   otherVars>>

InitLookup ==
    /\ catalog = RunCatalog
    /\ clubsDb = Roster
    /\ seasonSetting \in {0, 2}
    /\ runsLeft = 1
    /\ failuresLeft = MaxFailures
    /\ call = NoCall
    /\ InitStore
    /\ InitOther

NextLookup ==
    \/ Next
    \/ RosterEdit

SpecLookup == InitLookup /\ [][NextLookup]_vars

\* ------------------------------------------- the whole process, any season

\* Another client of the store starts the next season.
SeasonEdit ==
    /\ seasonSetting # 3
    /\ seasonSetting' = 3
    /\ UNCHANGED <<catalog, clubsDb, markers, points, stats, pc, currentSeason,
                   tournaments, idx, tier, playersCache, sortedTeams, teamIdx,
                   clubsAlreadyAwarded, processResult, runsLeft, failuresLeft, run,
                   checked, failed, failedBefore, markedNow, markersAtStart,
                   scoredRuns, clubCredits, snap, runFailures, response, call,
                   otherVars>>

\* A roster of a club of two, a club whose one member has no playfabId, and
\* a club without members.
SyncRoster ==
    <<[id |-> "c1", name |-> "Club A",
       players |-> <<[key |-> "k1", playfabId |-> "a 1", name |-> "Ann"],
                     [key |-> "k2", playfabId |-> "A2", name |-> "Bo"]>>],
      [id |-> "c2", name |-> "Club B",
       players |-> <<[key |-> "k1", playfabId |-> "", name |-> "Di"]>>],
      [id |-> "c3", name |-> "Club C", players |-> <<>>]>>

\* A feed of one tournament with one team of one.
MainCatalog ==
    [t \in {"t1"} |->
        [name |-> Str(<<"Gold", "Cup">>), array |-> TRUE,
         rows |-> <<Row("A1", "X", "1")>>]]

InitMain ==
    /\ catalog = MainCatalog
    /\ clubsDb = SyncRoster
    /\ seasonSetting \in {0, 2}
    /\ runsLeft = 2
    /\ failuresLeft = 1
    /\ call = NoCall
    /\ InitStore
    /\ exitCode = <<>>
    /\ PLAYFAB_ENABLED \in BOOLEAN
    /\ trophies = <<>>
    /\ trophyWrites = {}
    /\ instances = <<>>

NextMain ==
    \/ Next
    \/ SeasonEdit

SpecMain == InitMain /\ [][NextMain]_vars

\* ------------------------------------------- one tournament, more than four teams

\* Four competitors of no club, each a party of its own, in places 1 to 4.
SingleRows ==
    <<Row("U1", "3", "1"), Row("U2", "7", "2"), Row("U3", "X", "3"), Row("U4", "Y", "4")>>

\* A team of three of one club in one party.
ClubRows(letter, party, place) ==
    IF letter = "A"
    THEN <<Row("A1", party, place), Row("A2", party, place), Row("A3", party, place)>>
    ELSE <<Row("B1", party, place), Row("B2", party, place), Row("B3", party, place)>>

\* Feeds of five or six parties: the four singles and, before or after them
\* in the feed, a team of Club B and possibly a team of Club A.
ManyTeamFeeds ==
    {SingleRows \o ClubRows("B", "P", place) : place \in {"3", "4"}}
    \cup {ClubRows("B", "P", place) \o SingleRows : place \in {"3", "4"}}
    \cup {SingleRows \o ClubRows("B", "P", "4") \o ClubRows(letter, "Q", "4") :
              letter \in {"A", "B"}}

InitManyTeams ==
    /\ \E rows \in ManyTeamFeeds :
        catalog = [t \in {"t1"} |->
                      [name |-> Str(<<"Round", "Madness", "EU">>), array |-> TRUE, rows |-> rows]]
    /\ clubsDb = Roster
    /\ seasonSetting = 2
    /\ runsLeft = 1
    /\ failuresLeft = 1
    /\ call = NoCall
    /\ InitStore
    /\ InitOther

SpecManyTeams == InitManyTeams /\ [][Next]_vars

\* ------------------------------------------- a series of scoring tournaments

\* A feed of two tournaments of tracked tiers, each with a team of three of
\* Club A.
SeriesCatalog ==
    [t \in {"t1", "t2"} |->
        IF t = "t1"
        THEN [name |-> Str(<<"EU", "Silver", "Cup", "1">>), array |-> TRUE,
              rows |-> <<Row("A1", "X", "1"), Row("A2", "X", "1"), Row("A3", "X", "1")>>]
        ELSE [name |-> Str(<<"Gold", "Cup">>), array |-> TRUE,
              rows |-> <<Row("A1", "P", "2"), Row("A2", "P", "2"), Row("A3", "P", "2")>>]]

\* One run over the series while other clients of the store edit the roster
\* and start the next season.
InitSeries ==
    /\ catalog = SeriesCatalog
    /\ clubsDb = Roster
    /\ seasonSetting \in {0, 2}
    /\ runsLeft = 1
    /\ failuresLeft = 1
    /\ call = NoCall
    /\ InitStore
    /\ InitOther

NextSeries ==
    \/ Next
    \/ RosterEdit
    \/ SeasonEdit

SpecSeries == InitSeries /\ [][NextSeries]_vars

\* ------------------------------------------- two club records of one name

\* The roster with a third record that carries the name of the first: the
\* keys of clubs/ are distinct, the name is a field nothing keeps unique.
NamesakeRoster ==
    Roster \o <<[id |-> "c3", name |-> "Club A",
                 players |-> <<[key |-> "k1", playfabId |-> "T1", name |-> "Gil"],
                               [key |-> "k2", playfabId |-> "T2", name |-> "Hal"],
                               [key |-> "k3", playfabId |-> "T3", name |-> "Ida"]>>]>>

\* Teams of three in one party: the members of the first record, the members
\* of its namesake, and members spread over both.
NamesakeFeeds ==
    {<<Row("A2", "P", "1"), Row("A3", "P", "1"), Row("a1", "P", "1")>>,
     <<Row("T1", "P", "1"), Row("T2", "P", "1"), Row("T3", "P", "1")>>,
     <<Row("A2", "P", "2"), Row("T1", "P", "2"), Row("T2", "P", "2")>>}

InitNamesakes ==
    /\ \E rows \in NamesakeFeeds :
        catalog = [t \in {"t1"} |->
                      [name |-> Str(<<"Gold", "Cup">>), array |-> TRUE, rows |-> rows]]
    /\ clubsDb = NamesakeRoster
    /\ seasonSetting = 2
    /\ runsLeft = 1
    /\ failuresLeft = 1
    /\ call = NoCall
    /\ InitStore
    /\ InitOther

SpecNamesakes == InitNamesakes /\ [][Next]_vars

\* ------------------------------------------- a feed that lists an id twice

\* The lists of two or three entries in which a tournament id comes more than
\* once: the response is taken as it is, no entry is compared with another.
RepeatedFeeds(cat) ==
    {[i \in 1..Len(ids) |-> [tournamentId |-> ids[i], name |-> cat[ids[i]].name]] :
        ids \in {s \in UNION {[1..k -> DOMAIN cat] : k \in 2..3} :
                    \E i, j \in 1..Len(s) : i # j /\ s[i] = s[j]}}

StartRunRepeated == StartRunWith(RepeatedFeeds(catalog))

InitRepeated ==
    /\ catalog = SeriesCatalog
    /\ clubsDb = Roster
    /\ seasonSetting = 2
    /\ runsLeft = 1
    /\ failuresLeft = 1
    /\ call = NoCall
    /\ InitStore
    /\ InitOther

NextRepeated ==
    \/ StartRunRepeated
    \/ CheckTournament
    \/ FetchTournamentData
    \/ ProcessTeam
    \/ MarkTournament
    \/ FinishRun
    \/ SyncPlayFabPlayerData
    \/ Exit

SpecRepeated == InitRepeated /\ [][NextRepeated]_vars

\* ------------------------------------------- a call that never returns

\* The awaited calls carry no timeout and no cancellation: fetch is called
\* without a signal, and once('value'), update and set are awaited as they are.
\* A call whose promise never settles leaves the run at its await for ever;
\* nothing else of the script runs in the meantime.
CallNeverReturns ==
    /\ \/ pc = "idle" /\ runsLeft > 0
       \/ pc \in {"check", "fetch", "team", "mark"}
    /\ pc' = "blocked"
    /\ UNCHANGED <<otherVars, response, call, catalog, clubsDb, seasonSetting, markers,
                   points, stats, currentSeason, tournaments, idx, tier, playersCache,
                   sortedTeams, teamIdx, clubsAlreadyAwarded, processResult, runsLeft,
                   failuresLeft, run, checked, failed, failedBefore, markedNow,
                   markersAtStart, scoredRuns, clubCredits, snap, runFailures>>

InitLive ==
    /\ catalog = SeriesCatalog
    /\ clubsDb = Roster
    /\ seasonSetting \in {0, 2}
    /\ runsLeft = 1
    /\ failuresLeft = 1
    /\ call = NoCall
    /\ InitStore
    /\ InitOther

NextLive ==
    \/ Next
    \/ CallNeverReturns

\* A call that returns resumes the function that awaits it: the event loop runs
\* the continuation of every settled promise, so a step of the run that can be
\* taken is taken.  No fairness is put on CallNeverReturns.
SpecLive == InitLive /\ [][NextLive]_vars /\ WF_vars(Next)

\* ------------------------------------------- two instances of the pipeline

\* What an instance of the overlap model leaves alone: everything but the
\* totals of the store and the instances.
creditFrame ==
    <<catalog, clubsDb, seasonSetting, markers, stats, pc, currentSeason, tournaments,
      idx, tier, playersCache, sortedTeams, teamIdx, clubsAlreadyAwarded,
      processResult, runsLeft, failuresLeft, run, checked, failed, failedBefore,
      markedNow, markersAtStart, scoredRuns, clubCredits, snap, runFailures, response,
      call, exitCode, PLAYFAB_ENABLED, trophies, trophyWrites>>

\* The paths both instances credit: the totals of competitor A1 and of Club A.
PlayerTotal == PointsKey("players", "A1", "", "overall", 0)

PlayerSeasonTotal == PointsKey("players", "A1", "", "seasons", currentSeason)

ClubTotal == PointsKey("clubs", "c1", "", "overall", 0)

ClubSeasonTotal == PointsKey("clubs", "c1", "", "seasons", currentSeason)

ClubSummaryTotal == PointsKey("clubs_summary", "c1", "", "overall", 0)

\* Mutant of NewTotal: the value read is dropped.
NewTotalFromNothing(seen, pts) == pts

\* currentTotalPoints + points
NewTotal(seen, pts) == seen + pts

\* The point values an instance credits: first and second place of two tiers.
CreditAmounts ==
    {PointsAt(getPointsMapping(t), placement) : t \in {"silverEu1", "gold"}, placement \in 1..2}

\* An instance that has not started: it will credit `amount` to the
\* competitor and to the club.
NewInstance(amount) ==
    [at |-> "idle", amount |-> amount, lifetime |-> 0, season |-> 0, overlapped |-> FALSE]

Running(i) == instances[i].at \notin {"idle", "done"}

\* The scheduler starts an instance; the start overlaps when another
\* instance is running.
StartInstance(i) ==
    /\ instances[i].at = "idle"
    /\ instances' = [j \in DOMAIN instances |->
            IF j = i
            THEN [instances[j] EXCEPT !.at = "player",
                                      !.overlapped = \E o \in DOMAIN instances : Running(o)]
            ELSE [instances[j] EXCEPT !.overlapped = @ \/ Running(j)]]
    /\ UNCHANGED <<points, creditFrame>>

\* updateIndividualPlayerResult: playerSnapshot is read.
ReadPlayer(i) ==
    /\ instances[i].at = "player"
    /\ instances' = [instances EXCEPT ![i].at = "playerSeason",
                                       ![i].lifetime = Get(points, PlayerTotal)]
    /\ UNCHANGED <<points, creditFrame>>

\* updateIndividualPlayerResult: the season total is read just before the write.
ReadPlayerSeason(i) ==
    /\ instances[i].at = "playerSeason"
    /\ instances' = [instances EXCEPT ![i].at = "playerWrite",
                                       ![i].season = Get(points, PlayerSeasonTotal)]
    /\ UNCHANGED <<points, creditFrame>>

\* updateIndividualPlayerResult: both totals are written.
WritePlayer(i) ==
    /\ instances[i].at = "playerWrite"
    /\ points' = Put(Put(points, PlayerTotal,
                         NewTotal(instances[i].lifetime, instances[i].amount)),
                     PlayerSeasonTotal, NewTotal(instances[i].season, instances[i].amount))
    /\ instances' = [instances EXCEPT ![i].at = "club"]
    /\ UNCHANGED creditFrame

\* updateClubPoints: the club record is read.
ReadClub(i) ==
    /\ instances[i].at = "club"
    /\ instances' = [instances EXCEPT ![i].at = "clubWrite",
                                       ![i].lifetime = Get(points, ClubTotal),
                                       ![i].season = Get(points, ClubSeasonTotal)]
    /\ UNCHANGED <<points, creditFrame>>

\* updateClubPoints: both totals are written in one update.
WriteClub(i) ==
    /\ instances[i].at = "clubWrite"
    /\ points' = Put(Put(points, ClubTotal,
                         NewTotal(instances[i].lifetime, instances[i].amount)),
                     ClubSeasonTotal, NewTotal(instances[i].season, instances[i].amount))
    /\ instances' = [instances EXCEPT ![i].at = "summary"]
    /\ UNCHANGED creditFrame

\* updateClubPoints: the summary is set to the total that was written.
WriteSummary(i) ==
    /\ instances[i].at = "summary"
    /\ points' = Put(points, ClubSummaryTotal,
                     NewTotal(instances[i].lifetime, instances[i].amount))
    /\ instances' = [instances EXCEPT ![i].at = "done"]
    /\ UNCHANGED creditFrame

InitOverlap ==
    /\ catalog = RunCatalog
    /\ clubsDb = Roster
    /\ seasonSetting = 2
    /\ runsLeft = 0
    /\ failuresLeft = 0
    /\ call = NoCall
    /\ InitStore
    /\ exitCode = <<>>
    /\ PLAYFAB_ENABLED = FALSE
    /\ trophies = <<>>
    /\ trophyWrites = {}
    /\ instances \in [{1, 2} -> {NewInstance(a) : a \in CreditAmounts}]

NextOverlap ==
    \/ \E i \in DOMAIN instances : StartInstance(i)
    \/ \E i \in DOMAIN instances : ReadPlayer(i)
    \/ \E i \in DOMAIN instances : ReadPlayerSeason(i)
    \/ \E i \in DOMAIN instances : WritePlayer(i)
    \/ \E i \in DOMAIN instances : ReadClub(i)
    \/ \E i \in DOMAIN instances : WriteClub(i)
    \/ \E i \in DOMAIN instances : WriteSummary(i)

SpecOverlap == InitOverlap /\ [][NextOverlap]_vars

\* ------------------------------------------- the pure functions on their own

\* The state of the pipeline, which a call of a pure function leaves alone.
pipelineVars ==
    <<catalog, clubsDb, seasonSetting, markers, points, stats, pc, currentSeason,
      tournaments, idx, tier, playersCache, sortedTeams, teamIdx,
      clubsAlreadyAwarded, processResult, runsLeft, failuresLeft, run, checked,
      failed, failedBefore, markedNow, markersAtStart, scoredRuns, clubCredits,
      snap, runFailures, response, otherVars>>

\* The words tournament names are made of: every word of a rule of
\* getTierFromName, one word of no rule, and one word that holds two patterns.
NameWords ==
    {"Silver", "Singapore", "EU", "US", "1", "2", "Gold", "Limited", "Halloween",
     "Asia", "Cup", "Round", "Madness", "India", "Diamond", "Platinum", "America",
     "Championship", "Weekly", "EU1"}

\* The values getTierFromName is called with.
NameInputs ==
    {Str(w) : w \in SeqsUpTo(NameWords, MaxWords)}
    \cup {NotAString(t) : t \in {"undefined", "null", "number", "object"}}

\* The tier identifiers: the keys of the points table.
TierIds ==
    {"diamond", "platinum", "goldLimited", "gold", "silverEu2", "silverEu1",
     "silverUs1", "asia", "america", "silverUs2", "silverAsia1", "roundMadnessEu",
     "roundMadnessUs", "roundMadnessIndia", "halloweenCup", "Unknown"}

\* The strings getPointsMapping is called with: the tiers, strings that are
\* no key of the table, and names every object inherits.
TierInputs ==
    TierIds \cup {"", "bronze", "silvereu1", "unknown"} \cup ObjectPrototypeKeys

\* The numbers getStatFieldForPlacement is called with.
PlacementInputs == (0 - 1)..MaxPlacement

InitPure ==
    /\ catalog = RunCatalog
    /\ clubsDb = Roster
    /\ seasonSetting = 2
    /\ runsLeft = 0
    /\ failuresLeft = 0
    /\ InitStore
    /\ InitOther
    /\ \/ \E a \in NameInputs : call = [fn |-> "getTierFromName", arg |-> a, returns |-> <<>>]
       \/ \E a \in TierInputs : call = [fn |-> "getPointsMapping", arg |-> a, returns |-> <<>>]
       \/ \E a \in PlacementInputs :
            call = [fn |-> "getStatFieldForPlacement", arg |-> a, returns |-> <<>>]

\* One more call of the function under test with the same input.
Returned(value) ==
    /\ Len(call.returns) < MaxCalls
    /\ call' = [call EXCEPT !.returns = Append(@, value)]
    /\ UNCHANGED pipelineVars

CallGetTierFromName ==
    /\ call.fn = "getTierFromName"
    /\ Returned(getTierFromName(call.arg))

CallGetPointsMapping ==
    /\ call.fn = "getPointsMapping"
    /\ Returned(getPointsMapping(call.arg))

CallGetStatFieldForPlacement ==
    /\ call.fn = "getStatFieldForPlacement"
    /\ Returned(getStatFieldForPlacement(call.arg))

NextPure ==
    \/ CallGetTierFromName
    \/ CallGetPointsMapping
    \/ CallGetStatFieldForPlacement

SpecPure == InitPure /\ [][NextPure]_vars

\* ------------------------------------------- names in any letter case

\* Words of tournament names in several spellings; the words of one set
\* differ only in letter case.
CaseSpellings ==
    {{"silver", "Silver", "SILVER", "sIlVeR"}, {"singapore", "Singapore", "SINGAPORE"},
     {"eu1", "Eu1", "EU1"}, {"gold", "Gold", "GOLD"}, {"limited", "Limited", "LIMITED"},
     {"asia", "Asia", "ASIA"}, {"cup", "Cup", "CUP"}, {"weekly", "Weekly"}}

\* The names getTierFromName is called with: any words in any spelling.
CaseNameInputs == {Str(w) : w \in SeqsUpTo(UNION CaseSpellings, MaxCaseWords)}

InitCase ==
    /\ catalog = RunCatalog
    /\ clubsDb = Roster
    /\ seasonSetting = 2
    /\ runsLeft = 0
    /\ failuresLeft = 0
    /\ InitStore
    /\ InitOther
    /\ \/ \E a \in CaseNameInputs :
            call = [fn |-> "getTierFromName", arg |-> a, returns |-> <<>>]
       \/ \E a \in TierIds : call = [fn |-> "getPointsMapping", arg |-> a, returns |-> <<>>]
       \/ \E a \in 1..4 :
            call = [fn |-> "getStatFieldForPlacement", arg |-> a, returns |-> <<>>]

SpecCase == InitCase /\ [][NextPure]_vars

\* ------------------------------------------- the numbers of JavaScript

\* A non-negative JavaScript number: the bits of its significand, first bit 1,
\* and the power of two its last bit stands for; zero has no bits.
Zero == [bits |-> <<>>, exp |-> 0]

Zeros(k) == [i \in 1..k |-> 0]

RECURSIVE BinaryOf(_)
\* The bits of a natural number, highest first.
BinaryOf(n) == IF n = 0 THEN <<>> ELSE Append(BinaryOf(n \div 2), n % 2)

RECURSIVE FractionOf(_, _, _, _)
\* The next k bits after the point of r / d (r < d) behind the bits found so
\* far, and what is left of r.
FractionOf(r, d, k, found) ==
    IF k = 0 THEN [bits |-> found, rem |-> r]
    ELSE IF 2 * r >= d THEN FractionOf(2 * r - d, d, k - 1, Append(found, 1))
    ELSE FractionOf(2 * r, d, k - 1, Append(found, 0))

\* A bit string without its leading zeros.
StripZeros(bits) ==
    IF \A i \in 1..Len(bits) : bits[i] = 0 THEN <<>>
    ELSE LET first == CHOOSE i \in 1..Len(bits) :
                          bits[i] = 1 /\ \A j \in 1..(i - 1) : bits[j] = 0
         IN  SubSeq(bits, first, Len(bits))

\* The carry into position i of the sum of two bit strings of one length:
\* some lower position makes a carry that every position between passes on.
CarryInto(a, b, carry, i) ==
    \/ \E j \in (i + 1)..Len(a) :
           a[j] + b[j] = 2 /\ \A k \in (i + 1)..(j - 1) : a[k] + b[k] = 1
    \/ carry = 1 /\ \A k \in (i + 1)..Len(a) : a[k] + b[k] = 1

\* The sum of two bit strings of one length and a carry.
AddBits(a, b, carry) ==
    LET sum == [i \in 1..Len(a) |->
                   (a[i] + b[i] + (IF CarryInto(a, b, carry, i) THEN 1 ELSE 0)) % 2]
    IN  IF CarryInto(a, b, carry, 0) THEN <<1>> \o sum ELSE sum

\* The number nearest to the exact value bits * 2^exp (plus something smaller
\* than the last bit when `sticky`), ties to the even significand.
RoundToNearest(bits, exp, sticky) ==
    LET b == StripZeros(bits)
        n == Len(b)
    IN  IF b = <<>> THEN Zero
        ELSE IF n <= Precision
        THEN [bits |-> b \o Zeros(Precision - n), exp |-> exp - (Precision - n)]
        ELSE LET keep == SubSeq(b, 1, Precision)
                 rest == sticky \/ \E i \in (Precision + 2)..n : b[i] = 1
                 up == b[Precision + 1] = 1 /\ (rest \/ keep[Precision] = 1)
                 inc == AddBits(keep, Zeros(Precision), 1)
                 e == exp + (n - Precision)
             IN  IF ~up THEN [bits |-> keep, exp |-> e]
                 ELSE IF Len(inc) > Precision
                 THEN [bits |-> SubSeq(inc, 1, Precision), exp |-> e + 1]
                 ELSE [bits |-> inc, exp |-> e]

\* The number a decimal literal with one digit after the point stands for,
\* given in tenths: 16 is the literal 1.6.
ToNumber(tenths) ==
    LET fraction == FractionOf(tenths % 10, 10, Precision + 5, <<>>)
    IN  RoundToNearest(BinaryOf(tenths \div 10) \o fraction.bits, 0 - (Precision + 5),
                       fraction.rem # 0)

\* The exact sum of two non-negative numbers, as bits and the power of two
\* of the last bit.
ExactSum(a, b) ==
    LET e == IF a.exp < b.exp THEN a.exp ELSE b.exp
        x == a.bits \o Zeros(a.exp - e)
        y == b.bits \o Zeros(b.exp - e)
        n == IF Len(x) > Len(y) THEN Len(x) ELSE Len(y)
    IN  [bits |-> AddBits(Zeros(n - Len(x)) \o x, Zeros(n - Len(y)) \o y, 0), exp |-> e]

\* a + b of two non-negative numbers: the exact sum, rounded to nearest.
Plus(a, b) ==
    IF a.bits = <<>> THEN b
    ELSE IF b.bits = <<>> THEN a
    ELSE RoundToNearest(ExactSum(a, b).bits, ExactSum(a, b).exp, FALSE)

RECURSIVE SumSeq(_)
SumSeq(q) == IF q = <<>> THEN 0 ELSE Head(q) + SumSeq(Tail(q))

\* The point values of the table, in tenths.
PointValues ==
    {PointsAt(getPointsMapping(t), placement) : t \in TierIds, placement \in 1..4} \ {0}

\* A totalPoints value that starts at 0 (`|| 0`) and has the point values of
\* call.arg added to it, one after another: call.returns holds the stored
\* number after each addition.
AddPoints ==
    /\ call.fn = "addPoints"
    /\ Len(call.arg) < MaxAdds
    /\ \E v \in PointValues :
        LET stored == IF call.returns = <<>> THEN Zero ELSE call.returns[Len(call.returns)]
        IN  call' = [call EXCEPT
                        !.arg = Append(@, v),
                        !.returns = Append(@, Plus(stored, ToNumber(v)))]
    /\ UNCHANGED pipelineVars

InitNumbers ==
    /\ catalog = RunCatalog
    /\ clubsDb = Roster
    /\ seasonSetting = 2
    /\ runsLeft = 0
    /\ failuresLeft = 0
    /\ InitStore
    /\ InitOther
    /\ call = [fn |-> "addPoints", arg |-> <<>>, returns |-> <<>>]

NextNumbers == AddPoints

SpecNumbers == InitNumbers /\ [][NextNumbers]_vars

\* ------------------------------------------- lifetime and season totals as numbers

\* A stored number, 0 when nothing is stored (`|| 0`).
NumberAt(m, k) == IF k \in DOMAIN m THEN m[k] ELSE Zero

\* A store write of a number.
PutNumber(m, k, v) == [x \in DOMAIN m \cup {k} |-> IF x = k THEN v ELSE m[x]]

\* The individual record of one competitor.
LifetimeTotal == PointsKey("players", "A1", "", "overall", 0)

SeasonTotal(season) == PointsKey("players", "A1", "", "seasons", season)

\* The start of a run: the season is loaded.
LoadSeason ==
    /\ call.fn = "credit"
    /\ \E ok \in BOOLEAN : currentSeason' = loadCurrentSeason(ok)
    /\ currentSeason' # currentSeason
    /\ UNCHANGED <<otherVars, response, call, catalog, clubsDb, seasonSetting, markers, points,
                   stats, pc, tournaments, idx, tier, playersCache, sortedTeams, teamIdx,
                   clubsAlreadyAwarded, processResult, runsLeft, failuresLeft, run,
                   checked, failed, failedBefore, markedNow, markersAtStart,
                   scoredRuns, clubCredits, snap, runFailures>>

\* The point update of updateIndividualPlayerResult with the store holding
\* numbers: both totals are read and `points` is added to each. call.arg
\* holds the values credited so far, call.returns the two totals read and
\* the season of this credit.
CreditNumbers ==
    /\ call.fn = "credit"
    /\ Len(call.arg) < MaxAdds
    /\ \E v \in PointValues :
        LET currentTotalPoints == NumberAt(points, LifetimeTotal)
            currentSeasonPoints == NumberAt(points, SeasonTotal(currentSeason))
        IN  /\ points' = PutNumber(PutNumber(points, LifetimeTotal,
                                                Plus(currentTotalPoints, ToNumber(v))),
                                    SeasonTotal(currentSeason),
                                    Plus(currentSeasonPoints, ToNumber(v)))
            /\ call' = [call EXCEPT
                            !.arg = Append(@, v),
                            !.returns = <<currentTotalPoints, currentSeasonPoints,
                                          currentSeason>>]
    /\ UNCHANGED <<otherVars, response, catalog, clubsDb, seasonSetting, markers,
                   stats, pc, currentSeason, tournaments, idx, tier, playersCache,
                   sortedTeams, teamIdx, clubsAlreadyAwarded, processResult, runsLeft,
                   failuresLeft, run, checked, failed, failedBefore, markedNow,
                   markersAtStart, scoredRuns, clubCredits, snap, runFailures>>

InitSeasons ==
    /\ catalog = RunCatalog
    /\ clubsDb = Roster
    /\ seasonSetting \in {0, 2}
    /\ runsLeft = 0
    /\ failuresLeft = 0
    /\ InitStore
    /\ InitOther
    /\ call = [fn |-> "credit", arg |-> <<>>, returns |-> <<>>]

NextSeasons ==
    \/ LoadSeason
    \/ SeasonEdit
    \/ CreditNumbers

SpecSeasons == InitSeasons /\ [][NextSeasons]_vars

\* ------------------------------------------------------------------ claims

\* The team processTeamResults handled last.
LastTeam == sortedTeams[teamIdx - 1].team

\* What a store value grew by since the tournament started.
PointsDelta(k) == Get(points, k) - Get(snap.points, k)

StatDelta(k) == Get(stats, k) - Get(snap.stats, k)

\* A participant row that counts: ids present and a placement of 1 to 4.
ValidRow(r) ==
    /\ r.userPlayfabId # ""
    /\ r.partyId # ""
    /\ ~ParseInt(r.userPlace).nan
    /\ ParseInt(r.userPlace).v \in 1..4

\* The counter a placement feeds: 1 first, 2 second, 3 and 4 third.
CounterOf(placement) ==
    CASE placement = 1 -> "first" [] placement = 2 -> "second" [] OTHER -> "third"

RECURSIVE RowPoints(_, _, _)
\* The sum of the point values of the valid rows of competitor p.
RowPoints(rows, p, table) ==
    IF rows = <<>> THEN 0
    ELSE (IF ValidRow(Head(rows)) /\ ToUpperCase(Head(rows).userPlayfabId) = p
          THEN table[ParseInt(Head(rows).userPlace).v] ELSE 0)
         + RowPoints(Tail(rows), p, table)

RECURSIVE RowCount(_, _, _)
\* The number of valid rows of competitor p whose placement feeds `field`.
RowCount(rows, p, field) ==
    IF rows = <<>> THEN 0
    ELSE (IF /\ ValidRow(Head(rows))
             /\ ToUpperCase(Head(rows).userPlayfabId) = p
             /\ CounterOf(ParseInt(Head(rows).userPlace).v) = field
          THEN 1 ELSE 0)
         + RowCount(Tail(rows), p, field)

\* The normalized ids of the members of a club record.
MembersOf(club) ==
    {RemoveWhitespace(ToUpperCase(club.players[i].playfabId)) : i \in 1..Len(club.players)}

\* A team of exactly three whose members all belong to one registered club.
RosterEligible(team) ==
    /\ Len(team.playerIds) = 3
    /\ \E c \in 1..Len(clubsDb) : Range(team.playerIds) \subseteq MembersOf(clubsDb[c])

\* The teams of the tournament that wrote a club's points or counters.
CreditedTeams == UNION {clubCredits[c] : c \in DOMAIN clubCredits}

\* C1: over the runs, the points and counters of a tournament id are applied
\* in at most one run, and in a run the marker of a tournament is checked
\* before any scoring write for it.
C1_ScoredInAtMostOneRun ==
    \A t \in DOMAIN scoredRuns :
        /\ Cardinality(scoredRuns[t]) <= 1
        /\ run \in scoredRuns[t] => t \in checked

\* C2: a run that lists a tournament whose marker an earlier run wrote
\* performs no score mutation for it.
C2_MarkedTournamentNotRescored ==
    \A t \in DOMAIN scoredRuns : t \in markersAtStart => run \notin scoredRuns[t]

\* C3: a marker is written in a run only if no read or write of that
\* tournament's processing failed in the run.
C3_MarkerOnlyAfterAllWrites == \A t \in markedNow : t \notin failed

\* C4: when a tournament throws, the run still checks every later tournament
\* of the list and processes those that have no marker.
C4_LaterTournamentsStillChecked ==
    pc = "done" =>
        \A i \in 1..Len(tournaments) :
            /\ tournaments[i].tournamentId \in checked
            /\ tournaments[i].tournamentId \in markersAtStart \cup markedNow \cup failed

\* C5: a tournament whose processing failed has no marker after the run, and
\* the next run that lists it and in which no call fails processes it and
\* writes its marker.
C5_FailedTournamentRetried ==
    pc = "done" =>
        \A t \in DOMAIN catalog :
            /\ (t \in failed /\ t \notin markersAtStart) => t \notin markers
            /\ (/\ t \in failedBefore
                /\ runFailures = 0
                /\ \E i \in 1..Len(tournaments) : tournaments[i].tournamentId = t)
               => t \in markedNow

\* C6: a team is eligible for the club award iff it has exactly 3 members who
\* all belong to one registered club, and only such a team ever causes a
\* write of a club's points or counters.
C6_ClubAwardEligibility ==
    \A i \in 1..Len(sortedTeams) :
        /\ allPlayersFromSameClub(sortedTeams[i].team) <=> RosterEligible(sortedTeams[i].team)
        /\ i \in CreditedTeams => RosterEligible(sortedTeams[i].team)

\* C6 witness: a team of three of one club was credited, next to a team that
\* is not eligible.
C6_Witness ==
    /\ pc = "mark"
    /\ CreditedTeams # {}
    /\ \E i \in 1..Len(sortedTeams) : ~RosterEligible(sortedTeams[i].team)

\* C7: within one tournament at most one team writes to a club's points and
\* counters.
C7_OneCreditedTeamPerClub ==
    \A c \in DOMAIN clubCredits : Cardinality(clubCredits[c]) <= 1

\* C8: when a tournament of a recognized tier was processed without error,
\* every competitor's lifetime and season totalPoints grew by the point values
\* of its valid rows and its counters by the number of its valid rows of each
\* placement, whatever its club and team.
C8_IndividualResultPerRow ==
    (pc = "mark" /\ current \notin failed /\ tier # "Unknown") =>
        \A p \in {ToUpperCase(r.userPlayfabId) : r \in Range(catalog[current].rows)} :
            /\ PointsDelta(PointsKey("players", p, "", "overall", 0))
                   = RowPoints(catalog[current].rows, p, getPointsMapping(tier))
            /\ PointsDelta(PointsKey("players", p, "", "seasons", currentSeason))
                   = RowPoints(catalog[current].rows, p, getPointsMapping(tier))
            /\ \A f \in {"first", "second", "third"} :
                /\ StatDelta(StatKey("players", p, "", "overall", 0, tier, f))
                       = RowCount(catalog[current].rows, p, f)
                /\ StatDelta(StatKey("players", p, "", "seasons", currentSeason, tier, f))
                       = RowCount(catalog[current].rows, p, f)

\* C8 witness: a tournament processed without error in which a competitor of
\* no club, in a team that is not eligible, got an individual result.
C8_Witness ==
    /\ pc = "mark"
    /\ current \notin failed
    /\ tier # "Unknown"
    /\ CreditedTeams = {}
    /\ PointsDelta(PointsKey("players", "U1", "", "overall", 0)) > 0

\* C9: the placement that selects the club's point value and counter is the
\* minimum placement among the team's rows.
C9_ClubPlacementIsMinimum ==
    (pc \in {"team", "mark"} /\ teamIdx > 1 /\ processResult.processed) =>
        /\ processResult.placement = MinOf(LastTeam.placements)
        /\ processResult.pointsAwarded
               = PointsAt(getPointsMapping(tier), MinOf(LastTeam.placements))

\* What the scenario "EU Silver Cup 1" gives when Club A's second place is
\* worth `second` tenths: Club A's totals and counter, its members' totals,
\* and the third counter of the members of the team placed fourth.
ScenarioOutcome(second) ==
    /\ PointsDelta(PointsKey("clubs", "c1", "", "overall", 0)) = second
    /\ PointsDelta(PointsKey("clubs", "c1", "", "seasons", currentSeason)) = second
    /\ StatDelta(StatKey("clubs", "c1", "", "overall", 0, "silverEu1", "second")) = 1
    /\ StatDelta(StatKey("clubs", "c1", "", "seasons", currentSeason, "silverEu1", "second")) = 1
    /\ \A p \in {"A1", "A2", "A3"} :
        /\ PointsDelta(PointsKey("players", p, "", "overall", 0)) = second
        /\ PointsDelta(PointsKey("players", p, "", "seasons", currentSeason)) = second
    /\ \A p \in {"B1", "B2", "B3"} :
        /\ StatDelta(StatKey("players", p, "", "overall", 0, "silverEu1", "third")) = 1
        /\ StatDelta(StatKey("players", p, "", "seasons", currentSeason, "silverEu1", "third")) = 1
        /\ Get(stats, StatKey("players", p, "", "overall", 0, "silverEu1", "fourth")) = 0

ScenarioProcessed == pc = "mark" /\ current = "e1" /\ current \notin failed

\* C10 as stated: processing the scenario adds 1.6 to Club A's totals and to
\* each of its three members' totals.
C10_ScenarioAsStated == ScenarioProcessed => ScenarioOutcome(16)

\* C10 amended: processing the scenario adds 0.8, the second-place value of
\* silverEu1, to Club A's season and lifetime totals and to each of its three
\* members' totals, adds 1 to Club A's silverEu1.second counter, and adds 1 to
\* the third counter of the members of the team placed fourth.
C10_ScenarioAmended == ScenarioProcessed => ScenarioOutcome(8)

\* C10 witness: the scenario was processed without error and Club A was credited.
C10_Witness ==
    /\ ScenarioProcessed
    /\ tier = "silverEu1"
    /\ Get(points, PointsKey("clubs", "c1", "", "overall", 0)) > 0

\* C11: getStatFieldForPlacement maps 1 to first, 2 to second, 3 and 4 to
\* third (so 1 and 2 never share a field), and every other number to no
\* field, for which no counter update is made.
C11_PlacementField ==
    call.fn = "getStatFieldForPlacement" =>
        \A i \in 1..Len(call.returns) :
            /\ call.arg = 1 => call.returns[i] = "first"
            /\ call.arg = 2 => call.returns[i] = "second"
            /\ call.arg \in {3, 4} => call.returns[i] = "third"
            /\ call.arg \notin 1..4 =>
                /\ call.returns[i] = ""
                /\ CounterOps("clubs", "c1", "", "gold", call.arg, 1) = <<>>
            /\ call.arg \in 1..4 =>
                Len(CounterOps("clubs", "c1", "", "gold", call.arg, 1)) = 2

\* C11 witness: the function was called with fourth place.
C11_Witness ==
    /\ call.fn = "getStatFieldForPlacement"
    /\ call.arg = 4
    /\ call.returns # <<>>

\* C12: getPointsMapping returns a vector of four values, the first of them
\* positive, for every known tier, and [0,0,0,0] for Unknown and for every
\* string that is no key of the table.
C12_PointsVector ==
    call.fn = "getPointsMapping" =>
        \A i \in 1..Len(call.returns) :
            IF call.arg \in TierIds \ {"Unknown"}
            THEN /\ Len(call.returns[i]) = 4
                 /\ call.returns[i][1] > 0
                 /\ \A n \in 1..4 : call.returns[i][n] >= 0
            ELSE call.returns[i] = <<0, 0, 0, 0>>

Contains(value, w) ==
    \E i \in 1..Len(value.words) : w \in PatternsIn(ToLowerCase(value.words[i]))

\* Whether the lower-cased name contains the words a and b next to each other.
ContainsPair(value, a, b) ==
    \E i \in 1..(Len(value.words) - 1) :
        ToLowerCase(value.words[i]) = a /\ ToLowerCase(value.words[i + 1]) = b

\* The tiers of the rules for one tournament series (the rules that come
\* before the four tier-name rules), and the tiers of the tier-name rules.
SpecificTiers ==
    {"silverAsia1", "silverEu1", "silverEu2", "silverUs1", "silverUs2", "goldLimited",
     "halloweenCup", "asia", "roundMadnessEu", "roundMadnessUs", "roundMadnessIndia"}

GenericTiers == {"diamond", "platinum", "gold", "america"}

\* Whether the name holds what the rule of tier t asks for.
Satisfies(value, t) ==
    CASE t = "silverAsia1" -> Contains(value, "silver") /\ Contains(value, "singapore")
      [] t = "silverEu1" ->
            Contains(value, "silver") /\ Contains(value, "eu") /\ Contains(value, "1")
      [] t = "silverEu2" ->
            Contains(value, "silver") /\ Contains(value, "eu") /\ Contains(value, "2")
      [] t = "silverUs1" ->
            Contains(value, "silver") /\ Contains(value, "us") /\ Contains(value, "1")
      [] t = "silverUs2" ->
            Contains(value, "silver") /\ Contains(value, "us") /\ Contains(value, "2")
      [] t = "goldLimited" -> Contains(value, "gold") /\ Contains(value, "limited")
      [] t = "halloweenCup" -> Contains(value, "halloween")
      [] t = "asia" -> ContainsPair(value, "asia", "cup")
      [] t = "roundMadnessEu" ->
            ContainsPair(value, "round", "madness") /\ Contains(value, "eu")
      [] t = "roundMadnessUs" ->
            ContainsPair(value, "round", "madness") /\ Contains(value, "us")
      [] t = "roundMadnessIndia" ->
            ContainsPair(value, "round", "madness") /\ Contains(value, "india")
      [] OTHER -> Contains(value, t)

\* C14 as stated: a name that satisfies a specific and a generic rule gets
\* the specific tier; every name with "gold" and "limited" is goldLimited and
\* every name with "silver", "eu" and "1" is silverEu1, whatever other rule
\* words it contains.
C14_PrecedenceAsStated ==
    (call.fn = "getTierFromName" /\ IsString(call.arg)) =>
        \A i \in 1..Len(call.returns) :
            /\ ((\E t \in SpecificTiers : Satisfies(call.arg, t))
                /\ (\E t \in GenericTiers : Satisfies(call.arg, t)))
               => (call.returns[i] \in SpecificTiers /\ Satisfies(call.arg, call.returns[i]))
            /\ Satisfies(call.arg, "goldLimited") => call.returns[i] = "goldLimited"
            /\ Satisfies(call.arg, "silverEu1") => call.returns[i] = "silverEu1"

\* C14 amended: a name that satisfies a specific rule gets the tier of a
\* specific rule it satisfies, never a generic tier; a name with "gold" and
\* "limited" is goldLimited unless it satisfies one of the five silver rules,
\* and a name with "silver", "eu" and "1" is silverEu1 unless it contains
\* "singapore".
C14_PrecedenceAmended ==
    (call.fn = "getTierFromName" /\ IsString(call.arg)) =>
        \A i \in 1..Len(call.returns) :
            /\ (\E t \in SpecificTiers : Satisfies(call.arg, t))
               => (call.returns[i] \in SpecificTiers /\ Satisfies(call.arg, call.returns[i]))
            /\ (/\ Satisfies(call.arg, "goldLimited")
                /\ \A t \in {"silverAsia1", "silverEu1", "silverEu2", "silverUs1", "silverUs2"} :
                        ~Satisfies(call.arg, t))
               => call.returns[i] = "goldLimited"
            /\ (Satisfies(call.arg, "silverEu1") /\ ~Contains(call.arg, "singapore"))
               => call.returns[i] = "silverEu1"

\* C14 witness: a name with "gold", "limited" and "diamond" was classified.
C14_Witness ==
    /\ call.fn = "getTierFromName"
    /\ IsString(call.arg)
    /\ Satisfies(call.arg, "goldLimited")
    /\ Satisfies(call.arg, "diamond")
    /\ call.returns # <<>>

\* The rows of the tournament being processed.
CurrentRows == catalog[current].rows

\* The best placement of the team processed i-th.
Best(i) == MinOf(sortedTeams[i].team.placements)

\* The position in the feed of the first row of the team processed i-th.
FirstSeen(i) ==
    CHOOSE k \in 1..Len(CurrentRows) :
        /\ ValidRow(CurrentRows[k]) /\ CurrentRows[k].partyId = sortedTeams[i].partyId
        /\ \A j \in 1..(k - 1) :
                ~(ValidRow(CurrentRows[j]) /\ CurrentRows[j].partyId = sortedTeams[i].partyId)

\* C15: the teams are processed in ascending order of their best placement,
\* teams with the same best placement in the order in which they were first
\* seen in the feed, whatever the partyIds; four rows with placements 1 to 4
\* in four parties give four teams processed first to fourth.
C15_ProcessedInPlacementOrder ==
    pc \in {"team", "mark"} =>
        /\ \A i, j \in 1..Len(sortedTeams) :
                i < j => \/ Best(i) < Best(j)
                         \/ Best(i) = Best(j) /\ FirstSeen(i) < FirstSeen(j)
        /\ (/\ Len(CurrentRows) = 4
            /\ {ParseInt(r.userPlace).v : r \in Range(CurrentRows)} = 1..4
            /\ Cardinality({r.partyId : r \in Range(CurrentRows)}) = 4)
           => (Len(sortedTeams) = 4 /\ \A i \in 1..4 : Best(i) = i)

\* Whether a placement text is a number.
IsNumber(s) == s \in {"0", "1", "2", "3", "4", "5"}

\* A row the claim keeps: ids present and a placement that is a number of 1 to 4.
KeptRow(r) ==
    /\ r.userPlayfabId # ""
    /\ r.partyId # ""
    /\ IsNumber(r.userPlace)
    /\ ParseInt(r.userPlace).v \in 1..4

RECURSIVE SumOf(_, _)
\* The sum of the values of a store at the paths `keys`.
SumOf(m, keys) ==
    IF keys = {} THEN 0
    ELSE LET k == CHOOSE x \in keys : TRUE IN Get(m, k) + SumOf(m, keys \ {k})

\* The number of individual lifetime counter increments a store holds.
IndividualCounters(m) == SumOf(m, {x \in DOMAIN m : x[1] = "players" /\ x[4] = "overall"})

\* C16: the teams hold exactly the rows that have both ids and a placement
\* that is a number of 1 to 4, each in the team of its partyId and in feed
\* order, and when the tournament is processed without error the individual
\* counters grew by one for each such row and by nothing else.
C16_ExactlyInvalidRowsDiscarded ==
    pc \in {"team", "mark"} =>
        /\ {sortedTeams[i].partyId : i \in 1..Len(sortedTeams)}
               = {r.partyId : r \in {x \in Range(CurrentRows) : KeptRow(x)}}
        /\ \A i \in 1..Len(sortedTeams) :
                LET InTeam(r) == KeptRow(r) /\ r.partyId = sortedTeams[i].partyId
                    kept == SelectSeq(CurrentRows, InTeam)
                IN  /\ sortedTeams[i].team.playerIds
                           = [k \in 1..Len(kept) |-> ToUpperCase(kept[k].userPlayfabId)]
                    /\ sortedTeams[i].team.placements
                           = [k \in 1..Len(kept) |-> ParseInt(kept[k].userPlace).v]
        /\ (pc = "mark" /\ current \notin failed) =>
                IndividualCounters(stats) - IndividualCounters(snap.stats)
                    = Cardinality({k \in 1..Len(CurrentRows) : KeptRow(CurrentRows[k])})

\* C18: a team member whose id, upper-cased and with whitespace removed, is
\* the normalized id of a roster entry is treated as that entry: registered
\* and of that entry's club.
C18_IdsNormalizedAlike ==
    pc \in {"team", "mark"} =>
        \A i \in 1..Len(sortedTeams) :
            \A k \in 1..Len(sortedTeams[i].team.playerIds) :
                LET id == RemoveWhitespace(sortedTeams[i].team.playerIds[k])
                IN  id \in DOMAIN playersCache =>
                        sortedTeams[i].team.clubNames[k] = playersCache[id].clubName

C19_NonArrayListAbortsRun ==
    (run >= 1 /\ ~response.isArray) =>
        /\ pc \in {"done", "synced", "exited"}
        /\ markedNow = {}
        /\ markers = markersAtStart
        /\ checked = {}
        /\ \A t \in DOMAIN scoredRuns : run \notin scoredRuns[t]

\* C19 witness: the response was an object that holds two tournaments, and
\* the run is over.
C19_Witness ==
    /\ run >= 1
    /\ ~response.isArray
    /\ Len(response.items) = 2
    /\ pc = "done"

\* Whether the record a store path belongs to is in the roster: the club of
\* a club path, the club and the member of a club member path.
InRoster(k) ==
    CASE k[1] = "clubs" -> \E c \in 1..Len(clubsDb) : clubsDb[c].id = k[2]
      [] k[1] = "clubPlayers" ->
            \E c \in 1..Len(clubsDb) :
                /\ clubsDb[c].id = k[2]
                /\ \E m \in 1..Len(clubsDb[c].players) : clubsDb[c].players[m].key = k[3]
      [] OTHER -> TRUE

\* C20: when processTeamResults handles a team, no call to the store fails
\* and a club or a competitor it looks up is not in the roster, no exception
\* is raised, no value of a record that is not in the roster changes, every member still gets the
\* individual result, every member that is found still gets the club member
\* points, and the loop goes on to the next team or to the marker.
C20_LookupMissSkipsWrite ==
    [][(teamIdx' = teamIdx + 1 /\ failuresLeft' = failuresLeft) =>
        LET team == sortedTeams[teamIdx].team
            table == getPointsMapping(tier)
        IN  /\ processResult' # TeamError
            /\ pc' \in {"team", "mark"}
            /\ \A k \in DOMAIN points' : ~InRoster(k) => Get(points', k) = Get(points, k)
            /\ \A k \in DOMAIN stats' : ~InRoster(k) => Get(stats', k) = Get(stats, k)
            /\ \A m \in 1..Len(team.playerIds) :
                    LET p == team.playerIds[m]
                        own == PointsKey("players", p, "", "overall", 0)
                        loc == findPlayerLocation(clubsDb, p)
                    IN  /\ Get(points', own) = Get(points, own) + PointsAt(table, team.placements[m])
                        /\ (allPlayersFromSameClub(team) /\ loc # <<>>) =>
                                LET at == PointsKey("clubPlayers", loc[1].clubId,
                                                    loc[1].playerKey, "overall", 0)
                                IN  Get(points', at)
                                        = Get(points, at) + PointsAt(table, team.placements[m])
    ]_vars

\* C20 witness: the third member of Club A was gone from the roster when
\* its team was processed; the other members and the club got their points.
C20_Witness ==
    /\ pc = "mark"
    /\ tier = "silverEu1"
    /\ Len(clubsDb) = 2
    /\ clubsDb # Roster
    /\ Get(points, PointsKey("clubPlayers", "c1", "k1", "overall", 0)) > 0
    /\ Get(points, PointsKey("clubPlayers", "c1", "k3", "overall", 0)) = 0
    /\ Get(points, PointsKey("clubs", "c1", "", "overall", 0)) > 0

\* C21: the process exits as failed (code 1) exactly when the fetch of the
\* tournament list failed in its run; after every other failure, and after
\* none, it exits normally (code 0).
C21_OnlyFeedFailureIsFatal ==
    pc = "exited" => exitCode = IF response.ok THEN <<0>> ELSE <<1>>

\* The amounts the instances of the overlap model credit, added up.
CreditedByAll == instances[1].amount + instances[2].amount

\* C22: when the two instances did not overlap (each started when the other
\* was not running) and both are done, the lifetime and season totals of the
\* competitor and of the club, and the club's summary, hold the amounts of
\* both; when they overlap an update can be lost (the witness).
C22_NoLostUpdateWithoutOverlap ==
    (\A i \in DOMAIN instances : instances[i].at = "done" /\ ~instances[i].overlapped) =>
        \A k \in {PlayerTotal, PlayerSeasonTotal, ClubTotal, ClubSeasonTotal,
                  ClubSummaryTotal} :
            Get(points, k) = CreditedByAll

\* C22 witness: two overlapping instances are done, and the club's total and
\* the competitor's total are smaller than the amounts both added.
C22_Witness ==
    /\ DOMAIN instances = {1, 2}
    /\ \A i \in DOMAIN instances : instances[i].at = "done" /\ instances[i].overlapped
    /\ Get(points, ClubTotal) < CreditedByAll
    /\ Get(points, PlayerTotal) < CreditedByAll

\* C23: a stored totalPoints equals the exact decimal sum of the point values
\* that were added to it: after every addition the stored number is the
\* number of the decimal sum.
C23_PointArithmeticExact ==
    call.fn = "addPoints" =>
        \A i \in 1..Len(call.returns) :
            call.returns[i] = ToNumber(SumSeq(SubSeq(call.arg, 1, i)))

\* The paths whose value differs between two stores.
ChangedKeys(old, new) == {k \in DOMAIN new : Get(old, k) # new[k]}

\* Whether a path belongs to a team: a member's individual record, or a record
\* of the team's club (the club, its summary, a member inside the club).
KeyOfTeam(k, team) ==
    IF k[1] = "players" THEN k[2] \in Range(team.playerIds)
    ELSE /\ uniqueClubs(team) # {}
         /\ FindClubByName(clubsDb, AwardClubName(team)) = <<k[2]>>
         /\ k[1] = "clubPlayers" =>
                \E id \in Range(team.playerIds) :
                    /\ findPlayerLocation(clubsDb, id) # <<>>
                    /\ findPlayerLocation(clubsDb, id)[1].playerKey = k[3]

C25_RebuiltPerTournament ==
    [][/\ (pc = "fetch" /\ pc' \in {"team", "mark"}) =>
            /\ clubsAlreadyAwarded' = {}
            /\ playersCache' = fetchClubsAndPlayers(clubsDb)
       /\ (pc = "team" /\ teamIdx = 1 /\ teamIdx' = 2 /\ failuresLeft' = failuresLeft
             /\ allPlayersFromSameClub(sortedTeams[1].team)) =>
            /\ clubsAlreadyAwarded = {}
            /\ processResult'.processed
            /\ clubsAlreadyAwarded' = {AwardClubName(sortedTeams[1].team)}]_vars

\* Club A was credited in the first tournament of the run and is credited
\* again in the second.
C25_Witness ==
    /\ run = 1
    /\ idx = 2
    /\ pc = "mark"
    /\ tournaments[1].tournamentId \in markedNow
    /\ Get(snap.points, PointsKey("clubs", "c1", "", "overall", 0)) > 0
    /\ processResult.processed
    /\ processResult.clubName = "Club A"
    /\ Get(points, PointsKey("clubs", "c1", "", "overall", 0))
           > Get(snap.points, PointsKey("clubs", "c1", "", "overall", 0))

\* A number without the zeros at either end of its bits.
Canonical(n) ==
    LET b == StripZeros(n.bits)
    IN  IF b = <<>> THEN Zero
        ELSE LET last == CHOOSE i \in 1..Len(b) :
                             b[i] = 1 /\ \A j \in (i + 1)..Len(b) : b[j] = 0
             IN  [bits |-> SubSeq(b, 1, last), exp |-> n.exp + (Len(b) - last)]

\* C26: in each completed credit the lifetime total and the season total of
\* the record grow by equal amounts: the lifetime total after the credit minus
\* the one read before it equals the season total after minus the one before.
C26_EqualGrowth ==
    (call.fn = "credit" /\ call.arg # <<>>) =>
        Canonical(ExactSum(points[LifetimeTotal], call.returns[2]))
            = Canonical(ExactSum(points[SeasonTotal(call.returns[3])], call.returns[1]))

\* Whether the competitor of a team member is in the roster index: the index
\* has an entry under the competitor's normalized id.
InRosterIndex(playerId) == RemoveWhitespace(playerId) \in DOMAIN playersCache

\* C27: a member whose competitor is absent from the roster index is in the
\* team with the club "No Club", every kept row is a member of the team of its
\* partyId, and a team's hasUnregisteredPlayers is true exactly when one of
\* its members is absent from the roster index.
C27_UnregisteredExactlyWhenAbsent ==
    pc \in {"team", "mark"} =>
        /\ \A r \in Range(SelectSeq(CurrentRows, KeptRow)) :
               \E i \in 1..Len(sortedTeams) :
                   /\ sortedTeams[i].partyId = r.partyId
                   /\ ToUpperCase(r.userPlayfabId) \in Range(sortedTeams[i].team.playerIds)
        /\ \A i \in 1..Len(sortedTeams) :
               LET team == sortedTeams[i].team
                   absent == {k \in 1..Len(team.playerIds) : ~InRosterIndex(team.playerIds[k])}
               IN  /\ \A k \in absent : team.clubNames[k] = NoClub
                   /\ team.hasUnregisteredPlayers <=> absent # {}

\* The parties of the rows of the current tournament that are kept.
KeptParties == {r.partyId : r \in Range(SelectSeq(CurrentRows, KeptRow))}

\* C28: scoring is not limited to the first four teams. When a tournament
\* has been processed without a failed call, every party of the feed was a
\* team of the loop, every kept row has its individual counter written, and
\* every team of three of one club, at any position of the order, has its
\* club credited in this tournament.
C28_EveryTeamScored ==
    (pc = "mark" /\ current \notin failed) =>
        /\ Len(sortedTeams) = Cardinality(KeptParties)
        /\ teamIdx = Len(sortedTeams) + 1
        /\ IndividualCounters(stats) - IndividualCounters(snap.stats)
               = Len(SelectSeq(CurrentRows, KeptRow))
        /\ \A i \in 1..Len(sortedTeams) :
               allPlayersFromSameClub(sortedTeams[i].team) =>
                   \E c \in DOMAIN clubCredits :
                       /\ FindClubByName(clubsDb, AwardClubName(sortedTeams[i].team)) = <<c>>
                       /\ \E j \in clubCredits[c] : j <= i

\* Six teams were processed and the clubs of the fifth and of the sixth were
\* credited by those teams.
C28_Witness ==
    /\ pc = "mark"
    /\ current \notin failed
    /\ Len(sortedTeams) = 6
    /\ "c2" \in DOMAIN clubCredits /\ 5 \in clubCredits["c2"]
    /\ "c1" \in DOMAIN clubCredits /\ 6 \in clubCredits["c1"]
    /\ Get(points, PointsKey("clubs", "c1", "", "overall", 0)) = 17

\* The three total trophy figures a club stores in a season.
ClubTrophyFigures(clubId, season) ==
    {TrophyKey("clubs", clubId, "", 0), TrophyKey("clubs_summary", clubId, "", 0),
     TrophyKey("clubs", clubId, "seasons", season)}

\* C29: when the sync of a run has gone through its club trophy update
\* without a failed call, every club that has members stores, as lifetime,
\* summary and current-season figure, the sum of its members' trophy counts,
\* and a club whose lifetime and season figures equalled that sum before the
\* update is not written.
C29_ClubTrophiesConsistent ==
    [][(pc = "done" /\ pc' = "synced" /\ PLAYFAB_ENABLED /\ failuresLeft' = failuresLeft) =>
            \A c \in 1..Len(clubsDb') :
                Len(clubsDb'[c].players) > 0 =>
                    LET id == clubsDb'[c].id
                        sum == SumTrophies(trophies', clubsDb'[c], 1)
                    IN  /\ \A k \in ClubTrophyFigures(id, currentSeason) :
                               Get(trophies', k) = sum
                        /\ (/\ Get(trophies, TrophyKey("clubs", id, "", 0)) = sum
                            /\ Get(trophies, TrophyKey("clubs", id, "seasons", currentSeason)) = sum)
                               => id \notin trophyWrites'
                        /\ id \notin trophyWrites' =>
                               \A k \in ClubTrophyFigures(id, currentSeason) :
                                   Get(trophies', k) = Get(trophies, k)]_vars

\* The second run's sync went through and left Club A, whose figures it
\* found equal to the sum of its members' trophies, unwritten.
C29_Witness ==
    /\ pc = "synced"
    /\ PLAYFAB_ENABLED
    /\ run = 2
    /\ runFailures = 0
    /\ trophyWrites = {}
    /\ SumTrophies(trophies, clubsDb[1], 1) > 0
    /\ \A k \in ClubTrophyFigures("c1", currentSeason) :
           Get(trophies, k) = SumTrophies(trophies, clubsDb[1], 1)

\* The spellings of a word: the words that differ from it only in letter case.
SpellingsOf(w) == UNION {spellings \in CaseSpellings : w \in spellings}

RECURSIVE SpelledLike(_)
\* The word sequences that differ from `words` only in letter case.
SpelledLike(words) ==
    IF words = <<>> THEN {<<>>}
    ELSE {<<first>> \o rest : first \in SpellingsOf(Head(words)),
                              rest \in SpelledLike(Tail(words))}

\* The names that differ from a name only in letter case.
CaseVariants(value) == {Str(w) : w \in SpelledLike(value.words)}

\* C30: getTierFromName is case-insensitive: the tier a name was given is the
\* tier of every name that differs from it only in letter case.
C30_CaseInsensitive ==
    (call.fn = "getTierFromName" /\ call.returns # <<>>) =>
        \A other \in CaseVariants(call.arg) : getTierFromName(other) = call.returns[1]

\* A name in mixed spellings was given a tracked tier by a two-word pattern.
C30_Witness ==
    /\ call.fn = "getTierFromName"
    /\ call.arg = Str(<<"ASIA", "Cup">>)
    /\ call.returns # <<>>
    /\ call.returns[1] = "asia"

\* C31: a run whose calls all return goes through its finite tournament list and
\* its finite participant lists and reaches its finished state; a run with a call
\* that never returns stays at that call for ever and the process never exits.
C31_TerminatesUnlessBlocked ==
    /\ [](pc # "blocked")
          => ((pc \in {"check", "fetch", "team", "mark"})
                 ~> (pc \in {"done", "synced", "exited"}))
    /\ [](pc = "blocked" => [](pc = "blocked" /\ exitCode = <<>>))

C31_Witness ==
    /\ pc = "done"
    /\ run = 1
    /\ runFailures = 0
    /\ Len(tournaments) = 2
    /\ idx = Len(tournaments) + 1
    /\ markedNow = {tournaments[i].tournamentId : i \in 1..2}

\* Whether the store holds an individual result of a competitor.
HasIndividualResult(db, playerId) ==
    \E x \in DOMAIN db.stats :
        x[1] = "players" /\ x[2] = playerId /\ db.stats[x] > 0

\* C32: when a store call fails while a team is written, the members of the
\* team after the failing call are skipped, the team reports processed = false
\* with 0 individual results and its club is not noted as awarded, every write
\* made before the failure is kept, and the loop goes on to the next team of
\* the tournament.
C32_TeamFailureIsContained ==
    [][(pc = "team" /\ runFailures' = runFailures + 1) =>
            LET team == sortedTeams[teamIdx].team
                before == [points |-> points, stats |-> stats]
                now == [points |-> points', stats |-> stats']
                ops == TeamOps(team, getPointsMapping(tier), tier, clubsAlreadyAwarded,
                               playersCache, clubsDb, currentSeason)
            IN  /\ processResult'.processed = FALSE
                /\ processResult'.individualResults = 0
                /\ clubsAlreadyAwarded' = clubsAlreadyAwarded
                /\ \E k \in 0..(Len(ops) - 1) : now = ApplyOps(before, ops)[k + 1]
                /\ \A i, j \in 1..Len(team.playerIds) :
                       (i < j /\ ~HasIndividualResult(before, team.playerIds[j])
                              /\ HasIndividualResult(now, team.playerIds[j]))
                           => HasIndividualResult(now, team.playerIds[i])
                /\ \A x \in DOMAIN points : Get(points', x) >= points[x]
                /\ \A x \in DOMAIN stats : Get(stats', x) >= stats[x]
                /\ teamIdx' = teamIdx + 1
                /\ pc' = IF teamIdx < Len(sortedTeams) THEN "team" ELSE "mark"
                /\ sortedTeams' = sortedTeams]_vars

\* The team of Club B failed after its first member: B1 has an individual
\* result and B3 has none, and the team of U4, later in the order, was
\* written.
C32_Witness ==
    /\ pc = "mark"
    /\ runFailures = 1
    /\ HasIndividualResult([points |-> points, stats |-> stats], "B1")
    /\ ~HasIndividualResult([points |-> points, stats |-> stats], "B3")
    /\ HasIndividualResult([points |-> points, stats |-> stats], "U4")
    /\ processResult.individualResults = 1

\* The ids of the club records a competitor is a member of.
ClubsOfMember(clubs, playerId) ==
    {clubs[c].id : c \in {d \in 1..Len(clubs) :
        \E m \in 1..Len(clubs[d].players) :
            RemoveWhitespace(ToUpperCase(clubs[d].players[m].playfabId)) = playerId}}

\* C33: a club record whose points or counters a team wrote is the record all
\* members of that team belong to, also when two records carry one name.
C33_AwardGoesToMembersClub ==
    pc \in {"team", "mark"} =>
        \A c \in DOMAIN clubCredits : \A i \in clubCredits[c] :
            \A m \in 1..Len(sortedTeams[i].team.playerIds) :
                c \in ClubsOfMember(clubsDb, sortedTeams[i].team.playerIds[m])

RECURSIVE MemberPoints(_, _, _, _)
\* The sum of the point values of the places of member `id` in a team, from
\* index i.
MemberPoints(team, id, table, i) ==
    IF i > Len(team.playerIds) THEN 0
    ELSE (IF team.playerIds[i] = id THEN PointsAt(table, team.placements[i]) ELSE 0)
         + MemberPoints(team, id, table, i + 1)

\* The number of places of member `id` in a team that feed counter `field`.
MemberCount(team, id, field) ==
    Cardinality({i \in 1..Len(team.playerIds) :
        team.playerIds[i] = id /\ getStatFieldForPlacement(team.placements[i]) = field})

\* C34: a team written without a failed call that is club-eligible adds, for
\* each of its members, the point values of the member's places to the
\* member's record inside the club (lifetime and season) and, in a tournament
\* of a recognized tier, one to the tier counter of each place, whether or not
\* the club was already credited in the tournament; the turn of a team that
\* is not club-eligible changes no record inside a club roster.
C34_ClubMemberRecords ==
    [][pc = "team" =>
        LET team == sortedTeams[teamIdx].team
            table == getPointsMapping(tier)
            At(id) == playersCache[id]
        IN  /\ (allPlayersFromSameClub(team) /\ runFailures' = runFailures) =>
                \A id \in Range(team.playerIds) :
                    /\ \A scope \in {<<"overall", 0>>, <<"seasons", currentSeason>>} :
                         /\ Get(points', PointsKey("clubPlayers", At(id).clubId,
                                                   At(id).playerId, scope[1], scope[2]))
                              = Get(points, PointsKey("clubPlayers", At(id).clubId,
                                                      At(id).playerId, scope[1], scope[2]))
                                + MemberPoints(team, id, table, 1)
                         /\ tier # "Unknown" => \A f \in {"first", "second", "third"} :
                              Get(stats', StatKey("clubPlayers", At(id).clubId,
                                                  At(id).playerId, scope[1], scope[2], tier, f))
                              = Get(stats, StatKey("clubPlayers", At(id).clubId,
                                                   At(id).playerId, scope[1], scope[2], tier, f))
                                + MemberCount(team, id, f)
            /\ ~allPlayersFromSameClub(team) =>
                /\ \A x \in DOMAIN points' : x[1] = "clubPlayers" => Get(points, x) = points'[x]
                /\ \A x \in DOMAIN stats' : x[1] = "clubPlayers" => Get(stats, x) = stats'[x]]_vars

\* Club B was credited once, by its first team, and the records of B1 inside
\* Club B hold the fourth places of both of its teams.
C34_Witness ==
    /\ pc = "mark"
    /\ runFailures = 0
    /\ "c2" \in DOMAIN clubCredits /\ Cardinality(clubCredits["c2"]) = 1
    /\ Get(points, PointsKey("clubs", "c2", "", "overall", 0)) = 17
    /\ Get(points, PointsKey("clubPlayers", "c2", "k1", "overall", 0)) = 34
    /\ Get(stats, StatKey("clubPlayers", "c2", "k1", "overall", 0, tier, "third")) = 2

\* C35: no step removes a marker, a step that writes a marker writes the one
\* of a tournament of the run's feed list, and no run writes the marker of a
\* tournament it has written before.
C35_MarkersOnlyGrowOncePerRun ==
    [][/\ markers \subseteq markers'
       /\ markers' \subseteq
              markers \cup {tournaments[i].tournamentId : i \in 1..Len(tournaments)}
       /\ (pc = "mark" /\ pc' = "check") =>
              /\ markers' = markers \cup {current}
              /\ current \notin markedNow]_vars

\* C36: in every state between two store calls, also after a failed write,
\* the summary record of every club holds the club's lifetime totalPoints.
C36_SummaryEqualsLifetime ==
    \A c \in 1..Len(clubsDb) :
        Get(points, PointsKey("clubs_summary", clubsDb[c].id, "", "overall", 0))
            = Get(points, PointsKey("clubs", clubsDb[c].id, "", "overall", 0))

\* C37: every tier getTierFromName returns is a key of the points table, and
\* of the tiers it returns only Unknown has the vector of four zeros.
C37_EveryTierHasPoints ==
    call.fn = "getTierFromName" =>
        \A i \in 1..Len(call.returns) :
            /\ call.returns[i] \in TierIds
            /\ call.returns[i] \notin ObjectPrototypeKeys
            /\ Len(getPointsMapping(call.returns[i])) = 4
            /\ getPointsMapping(call.returns[i]) = <<0, 0, 0, 0>>
                   <=> call.returns[i] = "Unknown"

\* A name of the India series was classified.
C37_Witness ==
    /\ call.fn = "getTierFromName"
    /\ call.returns # <<>>
    /\ call.returns[1] = "roundMadnessIndia"
    /\ getPointsMapping(call.returns[1]) = <<64, 32, 16, 11>>

\* The rows of the tournament that pass the test of groupPlayersByTeam and
\* carry partyId p, in feed order.
RowsOfParty(p) ==
    LET Mine(r) == ValidRow(r) /\ r.partyId = p
    IN  SelectSeq(CurrentRows, Mine)

\* C38: in every team built from a feed the four lists have one length, entry
\* i of each list is taken from the i-th valid row of the team's party
\* (placement, upper-cased id, and the club and name the roster has for that
\* id), and the lengths of all teams add up to the number of valid rows.
C38_TeamListsAligned ==
    pc \in {"team", "mark"} =>
        /\ \A n \in 1..Len(sortedTeams) :
            LET team == sortedTeams[n].team
                mine == RowsOfParty(sortedTeams[n].partyId)
            IN  /\ Len(team.placements) = Len(mine)
                /\ Len(team.playerIds) = Len(mine)
                /\ Len(team.clubNames) = Len(mine)
                /\ Len(team.playerNames) = Len(mine)
                /\ \A i \in 1..Len(mine) :
                    LET id == ToUpperCase(mine[i].userPlayfabId)
                        known == id \in DOMAIN playersCache
                    IN  /\ team.placements[i] = ParseInt(mine[i].userPlace).v
                        /\ team.playerIds[i] = id
                        /\ team.clubNames[i]
                               = IF known THEN playersCache[id].clubName ELSE NoClub
                        /\ team.playerNames[i]
                               = IF known THEN playersCache[id].name ELSE "Unknown Player"
        /\ \A n, o \in 1..Len(sortedTeams) :
               n # o => sortedTeams[n].partyId # sortedTeams[o].partyId
        /\ Cardinality({<<n, i>> \in (1..Len(sortedTeams)) \X (1..Len(CurrentRows)) :
                            i <= Len(sortedTeams[n].team.playerIds)})
               = Len(SelectSeq(CurrentRows, ValidRow))

\* Two teams were built from four valid rows, one of them of a competitor
\* that is not in the roster, and the feed had a row that was skipped.
C38_Witness ==
    /\ pc = "team"
    /\ Len(sortedTeams) = 2
    /\ Len(SelectSeq(CurrentRows, ValidRow)) = 3
    /\ Len(CurrentRows) = 4
    /\ \E n \in 1..2 : sortedTeams[n].team.hasUnregisteredPlayers

====
